---- MODULE Spec2Model ----
(***************************************************************************)
(* GreenMiles trip planner: planEvTrip and the services it calls           *)
(* (geocoding/routing client, station directory client, community energy   *)
(* engine).                                                                *)
(*                                                                         *)
(* Units.  Every number the code rounds with toFixed is kept as an integer *)
(* in the unit of its last decimal:                                        *)
(*   distances with toFixed(2)   centi-km   (21600 = 216.00 km)            *)
(*   distances with toFixed(1)   deci-km    (2160  = 216.0 km)             *)
(*   energies                    centi-kWh  (1000  = 10.00 kWh)            *)
(*   percentages with toFixed(1) deci-percent                              *)
(* Coordinates lie on one meridian, so a coordinate is one integer (its    *)
(* position in centi-km) and haversineKm is the absolute difference.       *)
(* Strings are sequences of words and separators; the words are atomic.    *)
(***************************************************************************)
EXTENDS Integers, Sequences, FiniteSets, TLC

\* ------------------------------------------------------------------ bounds
MaxStations == 3

MaxListLen == 2

MaxVehicles == 3

MaxRoutePoints == 4

MaxNearby == 3

\* the longest route whose sampling is examined
MaxSampledLength == 480

\* ------------------------------------------------------- program constants
MIN_FAST_CHARGER_KW == 50

MIN_SOLAR_DETOUR_WINDOW_C == 200

DEFAULT_RECEIVER_BATTERY_KWH == 60

CRITICAL_THRESHOLD_PERCENT == 5

RESCUE_MAX_DISTANCE_C == 1000

RESCUE_MIN_DONOR_PERCENT == 40

DONOR_CAPACITY_KWH == 70

DONOR_FLOOR_PERCENT == 25

TRANSFER_MIN_C == 500

TRANSFER_MAX_C == 1000

SIMILARITY_THRESHOLD_PCT == 35

KeyGridC == 11

\* ----------------------------------------------------------------- helpers
Abs(x) == IF x < 0 THEN 0 - x ELSE x

Min2(a, b) == IF a <= b THEN a ELSE b

Max2(a, b) == IF a >= b THEN a ELSE b

Range(s) == {s[k] : k \in DOMAIN s}

\* Number.prototype.toFixed on num/den (num >= 0): the nearest integer in the
\* target unit.  On an exact decimal tie the result depends on the binary
\* value of the double, so both neighbours are possible.
ToFixed(num, den) ==
    LET q == num \div den
        r == num % den
    IN  IF 2 * r < den THEN {q}
        ELSE IF 2 * r > den THEN {q + 1}
        ELSE {q, q + 1}

\* Number.POSITIVE_INFINITY, as far as a loop bound is concerned
Infinity == 1000000000

\* mutant: Math.floor in place of Math.ceil
CeilDivFloor(a, b) == IF b = 0 THEN Infinity ELSE a \div b

\* Math.ceil(a / b) for a > 0, b >= 0; a positive number over 0 is Infinity
CeilDiv(a, b) == IF b = 0 THEN Infinity ELSE (a + b - 1) \div b

\* mutant: the first value written under a key stays
MapSetIfAbsent(cache, key, value) ==
    [k \in (DOMAIN cache) \cup {key} |-> IF k \in DOMAIN cache THEN cache[k] ELSE value]

\* Map.prototype.set
MapSet(cache, key, value) ==
    [k \in (DOMAIN cache) \cup {key} |-> IF k = key THEN value ELSE cache[k]]

EmptyMap == [k \in {} |-> 0]

\* ------------------------------------------------------------ geometry
haversineKm(a, b) == Abs(a - b)

RECURSIVE WalkRoute(_, _, _, _)
WalkRoute(route, targetC, i, covered) ==
    IF i > Len(route) THEN route[Len(route)]
    ELSE LET segStart == route[i - 1]
             segEnd == route[i]
             segDistance == haversineKm(segStart, segEnd)
         IN  IF covered + segDistance >= targetC
             THEN IF segDistance = 0 THEN segStart
                  ELSE IF segEnd >= segStart
                       THEN segStart + (targetC - covered)
                       ELSE segStart - (targetC - covered)
             ELSE WalkRoute(route, targetC, i + 1, covered + segDistance)

\* mutant: the early return for a target of 0 or less is missing
pointAtDistanceUnclamped(route, targetC) ==
    IF Len(route) = 0 THEN 0 ELSE WalkRoute(route, targetC, 2, 0)

pointAtDistanceAlongRoute(route, targetC) ==
    IF Len(route) = 0 THEN 0
    ELSE IF targetC <= 0 THEN route[1]
    ELSE WalkRoute(route, targetC, 2, 0)

\* `${point.lat.toFixed(3)}:${point.lng.toFixed(3)}:20:40`: 0.001 degree of
\* latitude is 0.111 km, so the key is the position on an 11 centi-km grid.
ChargerCacheKey(point) == (2 * point + KeyGridC) \div (2 * KeyGridC)

\* mutant: every vertex is visited
SampleStepOne(n) == 1

\* Math.max(1, Math.floor(route.length / 120))
SampleStep(n) == Max2(1, n \div 120)

SampledIndices(n) == {k \in 1..n : (k - 1) % SampleStep(n) = 0}

\* Number(min.toFixed(2)) of an integer number of centi-km is that number.
minDistanceToRouteKm(point, route) ==
    IF Len(route) = 0 THEN 0
    ELSE LET ds == {haversineKm(point, route[k]) : k \in SampledIndices(Len(route))}
         IN  CHOOSE d \in ds : \A e \in ds : d <= e

\* ------------------------------------------------------------- strings
Separators == {" ", "-"}

RECURSIVE TrimLeft(_)
TrimLeft(s) == IF Len(s) > 0 /\ Head(s) = " " THEN TrimLeft(Tail(s)) ELSE s

RECURSIVE TrimRight(_)
TrimRight(s) ==
    IF Len(s) > 0 /\ s[Len(s)] = " " THEN TrimRight(SubSeq(s, 1, Len(s) - 1)) ELSE s

\* String.prototype.trim; the words of the model are already lower case
Trim(s) == TrimRight(TrimLeft(s))

\* a.includes(b)
Includes(a, b) ==
    \E o \in 0..(Len(a) - Len(b)) : SubSeq(a, o + 1, o + Len(b)) = b

\* new Set(a.split(/[^a-z0-9]+/g).filter(Boolean))
TokenSet(s) == Range(s) \ Separators

\* mutant: every pair of routes counts as the same route
routeSimilarityAlwaysSame(routeA, routeB) == 100

\* routeSimilarityScore in percent, rounded down (only compared with 35)
routeSimilarityScore(routeA, routeB) ==
    LET a == Trim(routeA)
        b == Trim(routeB)
        aTokens == TokenSet(a)
        bTokens == TokenSet(b)
    IN  IF Len(a) = 0 \/ Len(b) = 0 THEN 0
        ELSE IF a = b THEN 100
        ELSE IF Includes(a, b) \/ Includes(b, a) THEN 75
        ELSE IF aTokens = {} \/ bTokens = {} THEN 0
        ELSE (100 * Cardinality(aTokens \cap bTokens))
                 \div Max2(Cardinality(aTokens), Cardinality(bTokens))

\* --------------------------------------------------- station directory
StationIds == 1..MaxStations

\* The directory's stations: position on the meridian, strongest connector
\* and the energy source normalizeStation infers for the record.
StationLatitude(id) ==
    LET base == <<100, 1400, 1600>> IN base[((id - 1) % 3) + 1] + 700 * ((id - 1) \div 3)

StationMaxPowerKw(id) ==
    LET base == <<60, 22, 150>> IN base[((id - 1) % 3) + 1]

StationEnergySource(id) ==
    LET base == <<"grid", "solar", "hybrid">> IN base[((id - 1) % 3) + 1]

normalizeStation(id) ==
    [id |-> id,
     latitude |-> StationLatitude(id),
     maxPowerKw |-> StationMaxPowerKw(id),
     isSolarPowered |-> StationEnergySource(id) # "grid",
     energySource |-> StationEnergySource(id)]

\* station.energySource is always set by normalizeStation, so the text
\* inference of detectSolarStations is never consulted here.
detectSolarStations(stations) ==
    [k \in DOMAIN stations |->
        [stations[k] EXCEPT !.isSolarPowered =
            stations[k].energySource \in {"solar", "hybrid"}]]

\* What a successful directory response can hold: any list of the
\* directory's records, repetitions included.
DirectoryLists ==
    UNION {[1..n -> StationIds] : n \in 0..MaxListLen}

maxPowerKw(station) == station.maxPowerKw

\* ------------------------------------------------- community energy engine
detectOutOfChargeScenario(batteryPercent, criticalThresholdPercent, nearbyStationsCount) ==
    LET isCriticalBattery == batteryPercent <= criticalThresholdPercent
        hasNoNearbyStations == nearbyStationsCount <= 0
    IN  [isCriticalBattery |-> isCriticalBattery,
         hasNoNearbyStations |-> hasNoNearbyStations,
         shouldTriggerRescue |-> isCriticalBattery /\ hasNoNearbyStations]

createSimulatedCommunityVehicles(routePoint) ==
    << [vehicleId |-> "EV-COMM-101", currentLocation |-> routePoint + 241,
        routeDirection |-> <<"same", " ", "corridor", " ", "outbound">>,
        availableBatteryPercent |-> 62, supportsReverseCharging |-> TRUE],
       [vehicleId |-> "EV-COMM-202", currentLocation |-> routePoint - 310,
        routeDirection |-> <<"nearby", " ", "local", " ", "route">>,
        availableBatteryPercent |-> 48, supportsReverseCharging |-> TRUE],
       [vehicleId |-> "EV-COMM-303", currentLocation |-> routePoint + 1049,
        routeDirection |-> <<"different", " ", "route">>,
        availableBatteryPercent |-> 72, supportsReverseCharging |-> FALSE] >>

\* mutant: the comparator without its tie-break on the battery
CandidateBeforeByDistance(a, b) == a.distanceKm < b.distanceKm

\* the comparator of the candidate sort: a sorts before b
CandidateBefore(a, b) ==
    \/ a.distanceKm < b.distanceKm
    \/ /\ a.distanceKm = b.distanceKm
       /\ a.vehicle.availableBatteryPercent > b.vehicle.availableBatteryPercent

\* x goes in front of the first element it sorts before (stable sort)
RECURSIVE InsertCandidate(_, _)
InsertCandidate(sorted, x) ==
    IF Len(sorted) = 0 THEN <<x>>
    ELSE IF CandidateBefore(x, Head(sorted)) THEN <<x>> \o sorted
    ELSE <<Head(sorted)>> \o InsertCandidate(Tail(sorted), x)

RECURSIVE SortCandidates(_)
SortCandidates(s) ==
    IF Len(s) = 0 THEN <<>>
    ELSE InsertCandidate(SortCandidates(SubSeq(s, 1, Len(s) - 1)), s[Len(s)])

findNearbyRescueVehicles(receiverLocation, receiverRouteDirection, vehicles, maxDistanceC, minimumDonorBatteryPercent) ==
    LET capable == SelectSeq(vehicles, LAMBDA v : v.supportsReverseCharging)
        charged == SelectSeq(capable,
                       LAMBDA v : v.availableBatteryPercent >= minimumDonorBatteryPercent)
        scored == [k \in DOMAIN charged |->
                      [vehicle |-> charged[k],
                       distanceKm |-> haversineKm(receiverLocation, charged[k].currentLocation),
                       similarity |-> routeSimilarityScore(receiverRouteDirection,
                                                           charged[k].routeDirection)]]
        near == SelectSeq(scored, LAMBDA c : c.distanceKm <= maxDistanceC)
        similar == SelectSeq(near, LAMBDA c : c.similarity >= SIMILARITY_THRESHOLD_PCT)
        sorted == SortCandidates(similar)
    IN  [k \in DOMAIN sorted |-> sorted[k].vehicle]

NoRescueResult(reason) ==
    [rescueFound |-> FALSE, donorVehicleId |-> "none", transferredEnergyKwh |-> 0,
     emergencyRangeGainedKm |-> 0, receiverBatteryAfterPercent |-> 0,
     donorBatteryAfterPercent |-> 0, nearestChargerReachable |-> FALSE,
     nearestReachableChargerId |-> 0, reason |-> reason]

\* mutant: the donor is the last candidate
PickDonorLast(rescueCandidates) == rescueCandidates[Len(rescueCandidates)]

\* input.rescueCandidates[0]
PickDonor(rescueCandidates) == rescueCandidates[1]

\* The results simulateReverseCharging can return (more than one only where
\* a toFixed falls on a tie).  The window of the transfer and the energies
\* inside the function are in milli-kWh; the capacities in kWh; of the
\* result, transferredEnergyKwh (toFixed(2)) is in centi-kWh, the range
\* (toFixed(1)) in deci-km, the percentages after the transfer (toFixed(1))
\* in deci-percent.
simulateReverseCharging(input) ==
    IF input.oneRescuePerTrip /\ input.alreadyRescuedOnTrip
    THEN {NoRescueResult("One rescue per trip limit reached")}
    ELSE IF Len(input.rescueCandidates) = 0
    THEN {NoRescueResult("No rescue vehicle available")}
    ELSE
    LET donor == PickDonor(input.rescueCandidates)
        donorCurrentEnergy ==
            donor.availableBatteryPercent * input.donorBatteryCapacityKwh * 10
        donorMinimumEnergy ==
            input.donorSafeBatteryFloorPercent * input.donorBatteryCapacityKwh * 10
        donorTransferable == Max2(0, donorCurrentEnergy - donorMinimumEnergy)
        transferCandidate == Min2(input.transferKwhRange.max, donorTransferable)
        transferred == IF transferCandidate >= input.transferKwhRange.min
                       THEN transferCandidate ELSE 0
        receiverCapacity == Max2(1, input.receiverBatteryCapacityKwh)
        receiverNum == input.receiverCurrentBatteryPercent * 10 * receiverCapacity
                          + transferred
        receiverAfter == IF receiverNum >= 1000 * receiverCapacity THEN {1000}
                         ELSE ToFixed(receiverNum, receiverCapacity)
        donorAfter == ToFixed(donorCurrentEnergy - transferred,
                              input.donorBatteryCapacityKwh)
        nearestIndex == CHOOSE k \in DOMAIN input.chargingStations :
            /\ \A j \in DOMAIN input.chargingStations :
                   haversineKm(input.receiverLocation, input.chargingStations[k].latitude)
                     <= haversineKm(input.receiverLocation, input.chargingStations[j].latitude)
            /\ \A j \in 1..(k - 1) :
                   haversineKm(input.receiverLocation, input.chargingStations[j].latitude)
                     > haversineKm(input.receiverLocation, input.chargingStations[k].latitude)
    IN  IF transferred <= 0
        THEN {NoRescueResult("Donor battery is below safe transfer reserve")}
        ELSE {LET reachable ==
                     /\ Len(input.chargingStations) > 0
                     /\ haversineKm(input.receiverLocation,
                                    input.chargingStations[nearestIndex].latitude)
                          <= range * 10
              IN  [rescueFound |-> TRUE,
                   donorVehicleId |-> donor.vehicleId,
                   transferredEnergyKwh |-> rounded,
                   emergencyRangeGainedKm |-> range,
                   receiverBatteryAfterPercent |-> ra,
                   donorBatteryAfterPercent |-> da,
                   nearestChargerReachable |-> reachable,
                   nearestReachableChargerId |->
                       IF reachable THEN input.chargingStations[nearestIndex].id ELSE 0,
                   reason |-> IF reachable
                              THEN "Rescue successful and a charger is reachable"
                              ELSE "Rescue provided emergency range, but nearest charger is still out of range"] :
              rounded \in ToFixed(transferred, 10),
              range \in ToFixed(transferred * 45, 1000),
              ra \in receiverAfter, da \in donorAfter}

\* the defaults of the options of calculateSolarDiscountedCost: the base
\* price in centi-INR per kWh, the discounts in percent
DefaultCostOptions ==
    [basePricePerKwh |-> 1200, solarDiscountPercent |-> 35, hybridDiscountPercent |-> 20]

\* calculateSolarDiscountedCost: prices in centi-INR per kWh, energy in
\* centi-kWh, the total in centi-INR; both toFixed(2) are set-valued on ties
calculateSolarDiscountedCost(energyRequiredKwh, station, options) ==
    LET units == Max2(0, energyRequiredKwh)
        basePricePerKwh == options.basePricePerKwh
        discountAppliedPercent ==
            IF station.energySource = "solar" THEN options.solarDiscountPercent
            ELSE IF station.energySource = "hybrid" THEN options.hybridDiscountPercent
            ELSE 0
    IN  UNION {{[basePricePerKwh |-> basePricePerKwh,
                 effectivePricePerKwh |-> price,
                 discountAppliedPercent |-> discountAppliedPercent,
                 totalCost |-> total] : total \in ToFixed(units * price, 100)} :
            price \in ToFixed(basePricePerKwh * (100 - discountAppliedPercent), 100)}

calculateChargingCost(energyRequiredKwh, station) ==
    calculateSolarDiscountedCost(energyRequiredKwh, station, DefaultCostOptions)

\* ----------------------------------------------------------- trip planner
\* Number(((safeBattery / 100) * safeRange).toFixed(2)): a whole percentage
\* of a whole number of km is a whole number of centi-km
calculateUsableRangeKm(evMaxRangeKm, currentBatteryPercent) ==
    LET safeBattery == Min2(Max2(currentBatteryPercent, 0), 100)
        safeRange == Max2(evMaxRangeKm, 0)
    IN  safeBattery * safeRange

\* mutant: the ranking without the solar preference
RankedBeforeByDistance(a, b) ==
    \/ a.distanceFromRouteKm < b.distanceFromRouteKm
    \/ /\ a.distanceFromRouteKm = b.distanceFromRouteKm
       /\ a.power > b.power

\* the comparator of the ranking in chooseBestStop: a sorts before b
RankedBefore(a, b) ==
    \/ a.solarWithMinimalDetour /\ ~b.solarWithMinimalDetour
    \/ /\ a.solarWithMinimalDetour = b.solarWithMinimalDetour
       /\ \/ a.distanceFromRouteKm < b.distanceFromRouteKm
          \/ /\ a.distanceFromRouteKm = b.distanceFromRouteKm
             /\ a.power > b.power

\* mutant: the filter on selectedIds is missing
NotSelectedAny(station, selectedIds) == TRUE

\* station ids chooseBestStop may still pick
NotSelected(station, selectedIds) == station.id \notin selectedIds

NoStop == [found |-> FALSE]

\* mutant: the pool is always the full list of candidates
ChoosePoolAll(fastCandidates, available) == available

\* fastCandidates.length > 0 ? fastCandidates : available
ChoosePool(fastCandidates, available) ==
    IF Len(fastCandidates) > 0 THEN fastCandidates ELSE available

\* chooseBestStop after fetchChargersNearPoint has delivered `nearby`: the
\* possible stops (one, unless a toFixed of the cost falls on a tie), or NoStop
chooseBestStop(nearby, route, distanceFromStartKm, energyRequiredKwh, selectedIds) ==
    LET unused == SelectSeq(nearby, LAMBDA st : NotSelected(st, selectedIds))
        available == [k \in DOMAIN unused |->
                        [station |-> unused[k],
                         power |-> maxPowerKw(unused[k]),
                         solar |-> unused[k].isSolarPowered,
                         distanceFromRouteKm |->
                             minDistanceToRouteKm(unused[k].latitude, route)]]
        fastCandidates == SelectSeq(available, LAMBDA cand : cand.power >= MIN_FAST_CHARGER_KW)
        pool == ChoosePool(fastCandidates, available)
        minDistanceInPool ==
            CHOOSE d \in {pool[k].distanceFromRouteKm : k \in DOMAIN pool} :
                \A k \in DOMAIN pool : d <= pool[k].distanceFromRouteKm
        flagged == [k \in DOMAIN pool |->
                      [station |-> pool[k].station,
                       power |-> pool[k].power,
                       solar |-> pool[k].solar,
                       distanceFromRouteKm |-> pool[k].distanceFromRouteKm,
                       solarWithMinimalDetour |->
                           /\ pool[k].solar
                           /\ pool[k].distanceFromRouteKm
                                <= minDistanceInPool + MIN_SOLAR_DETOUR_WINDOW_C]]
        \* ranked[0] of the stable sort: the first element nothing sorts before
        first == CHOOSE k \in DOMAIN flagged :
                    /\ \A j \in DOMAIN flagged : ~RankedBefore(flagged[j], flagged[k])
                    /\ \A j \in 1..(k - 1) :
                           \E m \in DOMAIN flagged : RankedBefore(flagged[m], flagged[j])
        picked == flagged[first]
    IN  IF Len(nearby) = 0 THEN {NoStop}
        ELSE IF Len(available) = 0 THEN {NoStop}
        ELSE {[found |-> TRUE,
               id |-> picked.station.id,
               latitude |-> picked.station.latitude,
               powerKw |-> picked.power,
               distanceFromRouteKm |-> picked.distanceFromRouteKm,
               distanceFromStartKm |-> distanceFromStartKm,
               isFastCharger |-> picked.power >= MIN_FAST_CHARGER_KW,
               isSolarPreferred |-> picked.solarWithMinimalDetour,
               energySource |-> picked.station.energySource,
               estimatedChargingCostInr |-> cost.totalCost,
               estimatedUnitPriceInr |-> cost.effectivePricePerKwh,
               discountPercent |-> cost.discountAppliedPercent] :
                 cost \in calculateChargingCost(energyRequiredKwh, picked.station)}


\* ------------------------------------------------------------ the inputs
\* place names as typed by the user: blank, a city, a name sharing two
\* words with a donor's route label
Places == {<<" ">>, <<"jaipur">>, <<"same", " ", "corridor">>}

BatteryValues == {0, 5, 80}

RangeValues == {300}

\* enableCommunityRescue is optional
EnableValues == {"true", "false", "undefined"}

UserDonor ==
    [vehicleId |-> "EV-USER-1", currentLocation |-> 1000,
     routeDirection |-> <<"jaipur">>,
     availableBatteryPercent |-> 50, supportsReverseCharging |-> TRUE]

\* communityVehicles is optional
VehicleOptions ==
    {[defined |-> FALSE, list |-> <<>>],
     [defined |-> TRUE, list |-> <<>>],
     [defined |-> TRUE, list |-> <<UserDonor>>]}

ParamSets ==
    [startLocation : Places, destination : Places,
     evMaxRangeKm : RangeValues, currentBatteryPercent : BatteryValues,
     enableCommunityRescue : EnableValues, communityVehicles : VehicleOptions]

\* the coordinate the geocoder reports for a place
GeocodePayload(normalized) == IF normalized = <<"jaipur">> THEN 0 ELSE 2000

\* six legs of 13.5 km to and fro, then one long straight segment
LongRoute == <<0, 1350, 0, 1350, 0, 1350, 0, 50000>>

\* what the directions endpoint can report: segments[0].distance in metres
\* and the geometry
ProviderRoutes ==
    {[distanceMeters |-> 4, geometry |-> <<0, 0>>],
     [distanceMeters |-> 20000, geometry |-> <<0, 2000>>],
     [distanceMeters |-> 500000, geometry |-> LongRoute]}

GeocodeOutcomes == {"reject", "rejectNonError", "notOk", "badJson", "noFeature", "ok"}

RouteOutcomes == {"reject", "notOk", "badJson", "invalidPayload", "ok"}

DirectoryOutcomes == {"reject", "notOk", "badJson", "notArray", "ok"}

Calls == {1}

\* ------------------------------------------------------------- the state
\* applied: the last direct application of one of the exported or internal
\* pure functions (function, input, output); the planner leaves it alone
VARIABLES ORS_API_KEY, geocodeCache, routeCache, chargerCache, call, applied

vars == <<ORS_API_KEY, geocodeCache, routeCache, chargerCache, call, applied>>

NotApplied == [fn |-> "none"]

\* --------------------------------------------------------------- errors
TripPlannerError(code, message, segment) ==
    [type |-> "TripPlannerError", code |-> code, message |-> message, segment |-> segment]

OtherError(type, message) ==
    [type |-> type, code |-> "none", message |-> message, segment |-> 0]

NoError == [type |-> "none", code |-> "none", message |-> "none", segment |-> 0]

\* the values `instanceof Error` accepts
ErrorClasses == {"TripPlannerError", "OpenChargeMapError", "Error"}

\* mutant: the catch block rethrows whatever it caught
CatchBlockRethrow(error) == error

\* mutant: the catch block wraps every foreign error as UNKNOWN
CatchBlockAllUnknown(error) ==
    IF error.type = "TripPlannerError" THEN error
    ELSE [type |-> "TripPlannerError", code |-> "UNKNOWN",
          message |-> "Trip planning failed due to an unknown error.", segment |-> 0]

\* the catch block of planEvTrip
CatchBlock(error) ==
    IF error.type = "TripPlannerError" THEN error
    ELSE IF error.type \in ErrorClasses
    THEN TripPlannerError("NETWORK_ERROR", error.message, 0)
    ELSE TripPlannerError("UNKNOWN", "Trip planning failed due to an unknown error.", 0)

NoRescueDetails ==
    [enabled |-> FALSE, triggered |-> FALSE, rescueFound |-> FALSE,
     donorVehicleId |-> "none", transferredEnergyKwh |-> 0,
     emergencyRangeGainedKm |-> 0, nearestChargerReachable |-> FALSE,
     reason |-> "none"]

FreshCall ==
    [pc |-> "idle", status |-> "pending",
     params |-> [startLocation |-> <<>>, destination |-> <<>>, evMaxRangeKm |-> 0,
                 currentBatteryPercent |-> 0, enableCommunityRescue |-> "undefined",
                 communityVehicles |-> [defined |-> FALSE, list |-> <<>>]],
     start |-> 0, destination |-> 0,
     route |-> [distanceKm |-> 0, geometry |-> <<>>],
     usableRangeKm |-> 0, planningLegRangeKm |-> 0, stopsNeeded |-> 0, i |-> 0,
     chargingStops |-> <<>>, selectedIds |-> {},
     rescueDetails |-> NoRescueDetails,
     requests |-> <<>>, failures |-> {}, simulations |-> 0,
     lookups |-> <<>>, writes |-> <<>>,
     failedAt |-> "none", noStopLeg |-> 0,
     raised |-> NoError, thrown |-> NoError,
     result |-> [requiresCharging |-> FALSE]]

\* the call fails: the error passes through the catch block to the caller
Throw(s, error) ==
    [s EXCEPT !.pc = "done", !.status = "thrown", !.failedAt = s.pc,
              !.raised = error, !.thrown = CatchBlock(error)]

Return(s, result) ==
    [s EXCEPT !.pc = "done", !.status = "returned", !.result = result]

\* a request goes out to a provider; `present` tells whether the cache held
\* the key when it was consulted for this request (the second fetch of the
\* directory client follows the first without another look at the cache)
Sent(s, kind, present) ==
    [s EXCEPT !.requests = Append(@, [kind |-> kind, leg |-> s.i, present |-> present])]

\* cache.set(key, value) by this call; `over` tells whether the key was set
\* already
Wrote(s, cache, key, value, over) ==
    [s EXCEPT !.writes = Append(@, [cache |-> cache, key |-> key,
                                    value |-> value, over |-> over])]

\* fetchChargersNearPoint returned `stations` for the key, from the cache
\* (hit) or from the provider
LookedUp(s, key, hit, stations) ==
    [s EXCEPT !.lookups = Append(@, [leg |-> s.i, key |-> key, hit |-> hit,
                                     stations |-> stations])]

Failed(s, what) == [s EXCEPT !.failures = @ \cup {what}]

MissingKey ==
    TripPlannerError("MISSING_ORS_KEY",
        "OpenRouteService API key is missing. Add VITE_ORS_KEY to your environment.", 0)

Init ==
    /\ ORS_API_KEY \in BOOLEAN
    /\ geocodeCache = EmptyMap
    /\ routeCache = EmptyMap
    /\ chargerCache = EmptyMap
    /\ call = [c \in Calls |-> FreshCall]
    /\ applied = NotApplied

\* the caller invokes planEvTrip(params)
StartCall(c) ==
    /\ call[c].pc = "idle"
    /\ \E params \in ParamSets :
          call' = [call EXCEPT ![c] = [FreshCall EXCEPT !.pc = "geocodeStart",
                                                        !.params = params]]
    /\ UNCHANGED <<applied, ORS_API_KEY, geocodeCache, routeCache, chargerCache>>

\* ------------------------------------------------------------ geocodeCity
GeocodeName(s) ==
    IF s.pc \in {"geocodeStart", "awaitGeocodeStart"}
    THEN s.params.startLocation ELSE s.params.destination

\* mutant: the start coordinate is taken for the destination as well
GeocodedSkipsDestination(s, coordinate) ==
    IF s.pc \in {"geocodeStart", "awaitGeocodeStart"}
    THEN [s EXCEPT !.start = coordinate, !.destination = coordinate, !.pc = "fetchRoute"]
    ELSE [s EXCEPT !.destination = coordinate, !.pc = "fetchRoute"]

\* geocodeCity returned `coordinate`: planEvTrip goes on
Geocoded(s, coordinate) ==
    IF s.pc \in {"geocodeStart", "awaitGeocodeStart"}
    THEN [s EXCEPT !.start = coordinate, !.pc = "geocodeDest"]
    ELSE [s EXCEPT !.destination = coordinate, !.pc = "fetchRoute"]

\* geocodeCity up to its fetch
GeocodeCity(c) ==
    LET s == call[c]
        normalized == Trim(GeocodeName(s))
    IN  /\ s.pc \in {"geocodeStart", "geocodeDest"}
        /\ call' = [call EXCEPT ![c] =
              IF Len(normalized) = 0
              THEN Throw(s, TripPlannerError("INVALID_LOCATION",
                              "Please enter both start and destination locations.", 0))
              ELSE IF normalized \in DOMAIN geocodeCache
              THEN Geocoded(s, geocodeCache[normalized])
              ELSE IF ~ORS_API_KEY
              THEN Throw(s, MissingKey)
              ELSE IF s.pc = "geocodeStart"
              THEN [Sent(s, "geocode:start", normalized \in DOMAIN geocodeCache)
                       EXCEPT !.pc = "awaitGeocodeStart"]
              ELSE [Sent(s, "geocode:destination", normalized \in DOMAIN geocodeCache)
                       EXCEPT !.pc = "awaitGeocodeDest"]]
        /\ UNCHANGED <<applied, ORS_API_KEY, geocodeCache, routeCache, chargerCache>>

\* geocodeCity from the settling of its fetch
GeocodeResponse(c) ==
    LET s == call[c]
        normalized == Trim(GeocodeName(s))
    IN  /\ s.pc \in {"awaitGeocodeStart", "awaitGeocodeDest"}
        /\ \E outcome \in GeocodeOutcomes :
              IF outcome = "ok"
              THEN /\ geocodeCache' = MapSet(geocodeCache, normalized,
                                             GeocodePayload(normalized))
                   /\ call' = [call EXCEPT ![c] =
                         Geocoded(Wrote(s, "geocode", normalized, GeocodePayload(normalized),
                                        normalized \in DOMAIN geocodeCache),
                                  GeocodePayload(normalized))]
              ELSE /\ UNCHANGED geocodeCache
                   /\ call' = [call EXCEPT ![c] = Throw(Failed(s, "geocode"),
                        CASE outcome = "reject" -> OtherError("Error", "Failed to fetch")
                          [] outcome = "rejectNonError" -> OtherError("NonError", "rejected")
                          [] outcome = "notOk" ->
                               TripPlannerError("NETWORK_ERROR",
                                   "Routing provider request failed.", 0)
                          [] outcome = "badJson" -> OtherError("Error", "Unexpected token")
                          [] outcome = "noFeature" ->
                               TripPlannerError("INVALID_LOCATION",
                                   "Could not find coordinates. Try a more specific city name.", 0))]
        /\ UNCHANGED <<applied, ORS_API_KEY, routeCache, chargerCache>>

\* ------------------------------------------------------------- fetchRoute
\* toFixed(5) of a coordinate keeps 1.1 m, finer than the centi-km grid of
\* the model: the key is the pair of coordinates
RouteCacheKey(start, destination) == <<start, destination>>

\* fetchRoute and getRouteDistance up to the fetch
FetchRoute(c) ==
    LET s == call[c]
        cacheKey == RouteCacheKey(s.start, s.destination)
    IN  /\ s.pc = "fetchRoute"
        /\ call' = [call EXCEPT ![c] =
              IF cacheKey \in DOMAIN routeCache
              THEN [s EXCEPT !.route = routeCache[cacheKey], !.pc = "plan"]
              ELSE IF ~ORS_API_KEY
              THEN Throw(s, MissingKey)
              ELSE [Sent(s, "directions", cacheKey \in DOMAIN routeCache)
                       EXCEPT !.pc = "awaitRoute"]]
        /\ UNCHANGED <<applied, ORS_API_KEY, geocodeCache, routeCache, chargerCache>>

\* getRouteDistance and fetchRoute from the settling of the fetch
RouteResponse(c) ==
    LET s == call[c]
        cacheKey == RouteCacheKey(s.start, s.destination)
    IN  /\ s.pc = "awaitRoute"
        /\ \E outcome \in RouteOutcomes :
              IF outcome = "ok"
              THEN \E payload \in ProviderRoutes :
                   \E distanceKm \in ToFixed(payload.distanceMeters, 10) :
                      LET result == [distanceKm |-> distanceKm,
                                     geometry |-> payload.geometry]
                      IN  /\ routeCache' = MapSet(routeCache, cacheKey, result)
                          /\ call' = [call EXCEPT ![c] =
                                [Wrote(s, "route", cacheKey, result,
                                       cacheKey \in DOMAIN routeCache)
                                    EXCEPT !.route = result, !.pc = "plan"]]
              ELSE /\ UNCHANGED routeCache
                   /\ call' = [call EXCEPT ![c] = Throw(Failed(s, "directions"),
                        CASE outcome = "reject" -> OtherError("Error", "Failed to fetch")
                          [] outcome = "notOk" ->
                               TripPlannerError("NETWORK_ERROR",
                                   "OpenRouteService directions failed.", 0)
                          [] outcome = "badJson" -> OtherError("Error", "Unexpected token")
                          [] outcome = "invalidPayload" ->
                               TripPlannerError("ROUTE_NOT_FOUND",
                                   "OpenRouteService returned an invalid route payload.", 0))]
        /\ UNCHANGED <<applied, ORS_API_KEY, geocodeCache, chargerCache>>


\* ---------------------------------------------------- planEvTrip proper
\* mutant: the enableCommunityRescue flag is ignored
RescueEnabledAlways(params) == TRUE

\* params.enableCommunityRescue !== false
RescueEnabled(params) == params.enableCommunityRescue # "false"

InitialRescueDetails(params, reason) ==
    [enabled |-> RescueEnabled(params), triggered |-> FALSE, rescueFound |-> FALSE,
     donorVehicleId |-> "none", transferredEnergyKwh |-> 0,
     emergencyRangeGainedKm |-> 0, nearestChargerReachable |-> FALSE,
     reason |-> reason]

\* the result of the early return
NoChargingResult(s, usableRangeKm, planningLegRangeKm) ==
    [totalDistanceKm |-> s.route.distanceKm,
     usableRangeKm |-> usableRangeKm,
     planningLegRangeKm |-> planningLegRangeKm,
     requiresCharging |-> FALSE,
     chargingStopsRequired |-> 0,
     chargingStops |-> <<>>,
     message |-> "You can reach your destination without charging.",
     communityRescue |->
         InitialRescueDetails(s.params, "Trip can be completed without rescue support."),
     estimatedTotal |-> 0,
     sustainabilityScore |-> 1000,
     co2SavingsKg |-> 0]

RECURSIVE SumCost(_)
SumCost(stops) ==
    IF Len(stops) = 0 THEN 0
    ELSE stops[1].estimatedChargingCostInr + SumCost(Tail(stops))

\* mutant: only the stops whose source is solar are counted
SolarStopCountSolarOnly(chargingStops) ==
    Cardinality({k \in DOMAIN chargingStops : chargingStops[k].energySource = "solar"})

\* chargingStops.filter((stop) => stop.energySource !== "grid").length
SolarStopCount(chargingStops) ==
    Cardinality({k \in DOMAIN chargingStops : chargingStops[k].energySource # "grid"})

\* the results of the return after the loop; the score in deci-points
ChargingResults(s) ==
    LET solarStopCount == SolarStopCount(s.chargingStops)
        n == Len(s.chargingStops)
        scores == IF n > 0
                  THEN ToFixed(Min2(1000 * n, 500 * n + 500 * solarStopCount), n)
                  ELSE {500}
    IN  {[totalDistanceKm |-> s.route.distanceKm,
          usableRangeKm |-> s.usableRangeKm,
          planningLegRangeKm |-> s.planningLegRangeKm,
          requiresCharging |-> TRUE,
          chargingStopsRequired |-> n,
          chargingStops |-> s.chargingStops,
          message |-> "Charging stops planned successfully.",
          communityRescue |-> s.rescueDetails,
          estimatedTotal |-> SumCost(s.chargingStops),
          sustainabilityScore |-> score,
          co2SavingsKg |-> solarStopCount * 140] : score \in scores}

\* the loop condition: the next iteration, or the return after the loop
LoopOrReturn(s) ==
    IF s.i <= s.stopsNeeded THEN {[s EXCEPT !.pc = "segment"]}
    ELSE {Return(s, r) : r \in ChargingResults(s)}

\* mutant: < in place of <=
ReachableStrictlyBelow(distanceKm, usableRangeKm) == distanceKm < usableRangeKm

\* route.distanceKm <= usableRangeKm
ReachableWithoutCharging(distanceKm, usableRangeKm) == distanceKm <= usableRangeKm

\* mutant: < in place of <=
LegRangeNegative(planningLegRangeKm) == planningLegRangeKm < 0

\* planningLegRangeKm <= 0
LegRangeTooLow(planningLegRangeKm) == planningLegRangeKm <= 0

\* from the usable range to the first iteration of the segmentation loop
PlanRanges(c) ==
    LET usableRangeKm == calculateUsableRangeKm(call[c].params.evMaxRangeKm,
                                                call[c].params.currentBatteryPercent)
    IN  /\ call[c].pc = "plan"
        /\ \E planningLegRangeKm \in ToFixed(usableRangeKm * 9, 10) :
              LET s == [call[c] EXCEPT !.usableRangeKm = usableRangeKm,
                                       !.planningLegRangeKm = planningLegRangeKm]
              IN
              IF ReachableWithoutCharging(s.route.distanceKm, usableRangeKm)
              THEN call' = [call EXCEPT ![c] =
                      Return(s, NoChargingResult(s, usableRangeKm, planningLegRangeKm))]
              ELSE IF LegRangeTooLow(planningLegRangeKm)
              THEN call' = [call EXCEPT ![c] =
                      Throw(s, TripPlannerError("ROUTE_NOT_FOUND",
                          "Battery percentage is too low to generate a safe charging plan.", 0))]
              ELSE \E next \in LoopOrReturn(
                          [s EXCEPT !.stopsNeeded =
                                        CeilDiv(s.route.distanceKm, planningLegRangeKm) - 1,
                                    !.i = 1,
                                    !.chargingStops = <<>>,
                                    !.selectedIds = {},
                                    !.rescueDetails =
                                        InitialRescueDetails(s.params, "Rescue mode not required.")]) :
                      call' = [call EXCEPT ![c] = next]
        /\ UNCHANGED <<applied, ORS_API_KEY, geocodeCache, routeCache, chargerCache>>

RoutePoint(s) ==
    pointAtDistanceAlongRoute(s.route.geometry, s.planningLegRangeKm * s.i)

NoChargersFound(s) ==
    TripPlannerError("NO_CHARGERS_FOUND",
        IF s.rescueDetails.triggered THEN s.rescueDetails.reason
        ELSE "Try a different start/destination or higher battery level.", s.i)

\* the loop body from the return of fetchChargersNearPoint inside
\* chooseBestStop up to the next await
LegOutcomes(s, nearby) ==
    LET stops == UNION {chooseBestStop(nearby, s.route.geometry, d, e, s.selectedIds) :
                          d \in ToFixed(s.planningLegRangeKm * s.i, 10),
                          e \in ToFixed(s.planningLegRangeKm * 222, 1000)}
        scenario == detectOutOfChargeScenario(s.params.currentBatteryPercent,
                                              CRITICAL_THRESHOLD_PERCENT, 0)
    IN  UNION {IF stop.found
               THEN LoopOrReturn([s EXCEPT !.chargingStops = Append(@, stop),
                                           !.selectedIds = @ \cup {stop.id},
                                           !.i = @ + 1])
               ELSE IF scenario.shouldTriggerRescue /\ RescueEnabled(s.params)
               THEN {[s EXCEPT !.pc = "rescue", !.noStopLeg = s.i]}
               ELSE {Throw([s EXCEPT !.noStopLeg = s.i], NoChargersFound(s))} :
              stop \in stops}

\* mutant: an empty cached list counts as a miss
ChargerCachedNonEmpty(cache, cacheKey) ==
    cacheKey \in DOMAIN cache /\ Len(cache[cacheKey]) > 0

\* `if (cached) return cached`: every array is truthy, the empty one too
ChargerCached(cache, cacheKey) == cacheKey \in DOMAIN cache

\* one iteration of the loop up to the fetch of fetchChargersNearPoint
SegmentStep(c) ==
    LET s == call[c]
        cacheKey == ChargerCacheKey(RoutePoint(s))
    IN  /\ s.pc = "segment"
        /\ IF ChargerCached(chargerCache, cacheKey)
           THEN \E next \in LegOutcomes(LookedUp(s, cacheKey, TRUE, chargerCache[cacheKey]),
                                         chargerCache[cacheKey]) :
                   call' = [call EXCEPT ![c] = next]
           ELSE call' = [call EXCEPT ![c] =
                           [Sent(s, "directory", cacheKey \in DOMAIN chargerCache)
                               EXCEPT !.pc = "awaitChargers"]]
        /\ UNCHANGED <<applied, ORS_API_KEY, geocodeCache, routeCache, chargerCache>>

DirectoryError(message) == OtherError("OpenChargeMapError", message)

\* mutant: the second fetch follows every failure of the first
DirectoryFailureRetryAny(s, outcome) ==
    IF s.pc = "awaitChargers"
    THEN [Sent(Failed(s, "directory"), "directory", FALSE)
             EXCEPT !.pc = "awaitChargersFallback"]
    ELSE Throw(Failed(s, "directory"),
               DirectoryError("Open Charge Map request failed: Failed to fetch"))

\* fetchNearbyChargingStations when a fetch did not deliver a list: the
\* rejection of the first fetch is caught and answered with the second
\* fetch (the same URL, without the User-Agent header); everything else throws
DirectoryFailure(s, outcome) ==
    IF outcome = "reject" /\ s.pc = "awaitChargers"
    THEN [Sent(Failed(s, "directoryFirstFetch"), "directory", FALSE)
             EXCEPT !.pc = "awaitChargersFallback"]
    ELSE Throw(Failed(s, "directory"),
               DirectoryError(
                  CASE outcome = "reject" -> "Open Charge Map request failed: Failed to fetch"
                    [] outcome = "notOk" -> "Open Charge Map request failed: status"
                    [] outcome = "badJson" -> "Open Charge Map returned invalid JSON"
                    [] OTHER -> "Open Charge Map returned unexpected response format"))

\* mutant: a failed directory fetch counts as "no stations" and is cached
AfterFailedFetchCachesNone(cache, cacheKey) == MapSet(cache, cacheKey, <<>>)

\* fetchChargersNearPoint when fetchNearbyChargingStations throws: the
\* rejection leaves the function at the await, before chargerCache.set
AfterFailedFetch(cache, cacheKey) == cache

\* fetchNearbyChargingStations from the settling of a fetch, and what
\* follows it in fetchChargersNearPoint, chooseBestStop and the loop body
ChargersResponse(c) ==
    LET s == call[c]
        cacheKey == ChargerCacheKey(RoutePoint(s))
    IN  /\ s.pc \in {"awaitChargers", "awaitChargersFallback"}
        /\ \E outcome \in DirectoryOutcomes :
              IF outcome = "ok"
              THEN \E ids \in DirectoryLists :
                      LET stations == [k \in DOMAIN ids |-> normalizeStation(ids[k])]
                          solarAwareStations == detectSolarStations(stations)
                          t == LookedUp(Wrote(s, "charger", cacheKey, solarAwareStations,
                                              cacheKey \in DOMAIN chargerCache),
                                        cacheKey, FALSE, solarAwareStations)
                      IN  /\ chargerCache' = MapSet(chargerCache, cacheKey, solarAwareStations)
                          /\ \E next \in LegOutcomes(t, solarAwareStations) :
                                call' = [call EXCEPT ![c] = next]
              ELSE /\ chargerCache' = AfterFailedFetch(chargerCache, cacheKey)
                   /\ call' = [call EXCEPT ![c] = DirectoryFailure(s, outcome)]
        /\ UNCHANGED <<applied, ORS_API_KEY, geocodeCache, routeCache>>

\* mutant: a rescue that was found does not end the loop, the next boundary
\* follows
AfterRescueContinue(t) ==
    IF t.rescueDetails.rescueFound
    THEN LoopOrReturn([t EXCEPT !.i = @ + 1])
    ELSE {Throw(t, NoChargersFound(t))}

\* mutant: the plan is finalized only when the rescue reaches a charger
AfterRescueNeedsCharger(t) ==
    IF t.rescueDetails.rescueFound /\ t.rescueDetails.nearestChargerReachable
    THEN {Return(t, r) : r \in ChargingResults(t)}
    ELSE {Throw(t, NoChargersFound(t))}

\* mutant: the loop is left whatever the simulation found
AfterRescueAlwaysBreak(t) == {Return(t, r) : r \in ChargingResults(t)}

\* mutant: the break is missing, the loop body runs on into the throw
AfterRescueNoBreak(t) == {Throw(t, NoChargersFound(t))}

\* after the simulation: the break and the return after the loop when the
\* rescue was found, the throw otherwise
AfterRescue(t) ==
    IF t.rescueDetails.rescueFound
    THEN {Return(t, r) : r \in ChargingResults(t)}
    ELSE {Throw(t, NoChargersFound(t))}

\* the rescue branch of the loop body: the donors, the second
\* fetchChargersNearPoint (served by the cache), the simulation, then the
\* break and the return, or the throw
Rescue(c) ==
    LET s == call[c]
        routePoint == RoutePoint(s)
        cacheKey == ChargerCacheKey(routePoint)
        fallbackVehicles ==
            IF s.params.communityVehicles.defined THEN s.params.communityVehicles.list
            ELSE createSimulatedCommunityVehicles(routePoint)
        matchedRescueVehicles ==
            findNearbyRescueVehicles(routePoint,
                s.params.startLocation \o <<"-">> \o s.params.destination,
                fallbackVehicles, RESCUE_MAX_DISTANCE_C, RESCUE_MIN_DONOR_PERCENT)
    IN  /\ s.pc = "rescue"
        /\ cacheKey \in DOMAIN chargerCache
        /\ \E rescueSimulation \in simulateReverseCharging(
                 [receiverCurrentBatteryPercent |-> s.params.currentBatteryPercent,
                  receiverBatteryCapacityKwh |-> DEFAULT_RECEIVER_BATTERY_KWH,
                  receiverLocation |-> routePoint,
                  rescueCandidates |-> matchedRescueVehicles,
                  chargingStations |-> chargerCache[cacheKey],
                  donorBatteryCapacityKwh |-> DONOR_CAPACITY_KWH,
                  transferKwhRange |-> [min |-> 10 * TRANSFER_MIN_C,
                                       max |-> 10 * TRANSFER_MAX_C],
                  donorSafeBatteryFloorPercent |-> DONOR_FLOOR_PERCENT,
                  oneRescuePerTrip |-> TRUE,
                  alreadyRescuedOnTrip |-> FALSE]) :
              LET t == [LookedUp(s, cacheKey, TRUE, chargerCache[cacheKey])
                           EXCEPT !.simulations = @ + 1,
                                  !.rescueDetails =
                          [enabled |-> TRUE, triggered |-> TRUE,
                           rescueFound |-> rescueSimulation.rescueFound,
                           donorVehicleId |-> rescueSimulation.donorVehicleId,
                           transferredEnergyKwh |-> rescueSimulation.transferredEnergyKwh,
                           emergencyRangeGainedKm |-> rescueSimulation.emergencyRangeGainedKm,
                           nearestChargerReachable |-> rescueSimulation.nearestChargerReachable,
                           reason |-> rescueSimulation.reason]]
              IN  \E next \in AfterRescue(t) : call' = [call EXCEPT ![c] = next]
        /\ UNCHANGED <<applied, ORS_API_KEY, geocodeCache, routeCache, chargerCache>>

Next ==
    \E c \in Calls :
        \/ StartCall(c)
        \/ GeocodeCity(c)
        \/ GeocodeResponse(c)
        \/ FetchRoute(c)
        \/ RouteResponse(c)
        \/ PlanRanges(c)
        \/ SegmentStep(c)
        \/ ChargersResponse(c)
        \/ Rescue(c)

Spec == Init /\ [][Next]_vars


\* ============================================== the functions on their own
\* A caller applies one function to one input.  The planner is at rest.
PlannerAtRest ==
    /\ ORS_API_KEY = FALSE
    /\ geocodeCache = EmptyMap
    /\ routeCache = EmptyMap
    /\ chargerCache = EmptyMap
    /\ call = [c \in Calls |-> FreshCall]

FunctionInit == PlannerAtRest /\ applied = NotApplied

\* donors for the simulation: below the floor, just short of the default
\* minimum transfer, and well above it
DonorPercents == {20, 32, 50}

Donor(percent) ==
    [vehicleId |-> CASE percent = 20 -> "EV-LOW"
                     [] percent = 32 -> "EV-SHORT"
                     [] OTHER -> "EV-FULL",
     currentLocation |-> 100,
     routeDirection |-> <<"jaipur">>,
     availableBatteryPercent |-> percent, supportsReverseCharging |-> TRUE]

CandidateLists ==
    {<<>>} \cup {<<Donor(p)>> : p \in DonorPercents}
           \cup {<<Donor(p), Donor(q)>> : p, q \in DonorPercents}

\* transfer windows in milli-kWh: the default 5..10 kWh, two windows that are
\* no multiple of 0.01 kWh (one rounds down, one up), a window below 0.005
\* kWh, a window from 0, an empty window
TransferWindows ==
    {[min |-> 5000, max |-> 10000], [min |-> 5004, max |-> 5004],
     [min |-> 5000, max |-> 5006],
     [min |-> 4, max |-> 4], [min |-> 0, max |-> 10000],
     [min |-> 10000, max |-> 5000]}

StationAt(id, latitude) ==
    [id |-> id, latitude |-> latitude, maxPowerKw |-> 60,
     isSolarPowered |-> FALSE, energySource |-> "grid"]

SimulationStationLists ==
    {<<>>, <<StationAt(1, 2000)>>, <<StationAt(1, 9000), StationAt(2, 2000)>>}

SimulationInputs ==
    [receiverCurrentBatteryPercent : {0, 5, 99},
     receiverBatteryCapacityKwh : {0, DEFAULT_RECEIVER_BATTERY_KWH},
     receiverLocation : {0},
     rescueCandidates : CandidateLists,
     chargingStations : SimulationStationLists,
     donorBatteryCapacityKwh : {DONOR_CAPACITY_KWH},
     transferKwhRange : TransferWindows,
     donorSafeBatteryFloorPercent : {DONOR_FLOOR_PERCENT},
     oneRescuePerTrip : BOOLEAN,
     alreadyRescuedOnTrip : BOOLEAN]

ApplySimulateReverseCharging ==
    /\ applied.fn = "none"
    /\ \E input \in SimulationInputs :
       \E output \in simulateReverseCharging(input) :
          applied' = [fn |-> "simulateReverseCharging", input |-> input, output |-> output]
    /\ UNCHANGED <<ORS_API_KEY, geocodeCache, routeCache, chargerCache, call>>

\* vehicles for the matching: two donors at the same distance on either side
\* of the receiver, one below the battery threshold, one too far, one that
\* cannot reverse-charge, one on another route, two sharing words of the
\* receiver's route label
Vehicle(id, location, direction, percent, supports) ==
    [vehicleId |-> id, currentLocation |-> location, routeDirection |-> direction,
     availableBatteryPercent |-> percent, supportsReverseCharging |-> supports]

VehiclePool ==
    {Vehicle("EV-1", 300, <<"jaipur">>, 60, TRUE),
     Vehicle("EV-2", 0 - 300, <<"jaipur">>, 70, TRUE),
     Vehicle("EV-3", 300, <<"jaipur">>, 39, TRUE),
     Vehicle("EV-4", 900, <<"agra">>, 64, TRUE),
     Vehicle("EV-5", 100, <<"jaipur">>, 80, FALSE),
     Vehicle("EV-6", 100, <<"different", " ", "route">>, 80, TRUE),
     Vehicle("EV-7", 200, <<"agra", " ", "jaipur", " ", "road">>, 40, TRUE),
     Vehicle("EV-8", 200, <<"jaipur", " ", "ring", " ", "road">>, 90, TRUE)}

VehicleLists == UNION {[1..n -> VehiclePool] : n \in 0..MaxVehicles}

\* maxDistanceKm and minimumDonorBatteryPercent: the defaults (8 km, 40 %)
\* and one other value each
MatchInputs ==
    [receiverLocation : {0},
     receiverRouteDirection : {<<"jaipur", "-", "agra">>},
     vehicles : VehicleLists,
     maxDistanceKm : {800, 1000},
     minimumDonorBatteryPercent : {40, 65}]

ApplyFindNearbyRescueVehicles ==
    /\ applied.fn = "none"
    /\ \E input \in MatchInputs :
          applied' = [fn |-> "findNearbyRescueVehicles", input |-> input,
                      output |-> findNearbyRescueVehicles(input.receiverLocation,
                                     input.receiverRouteDirection, input.vehicles,
                                     input.maxDistanceKm, input.minimumDonorBatteryPercent)]
    /\ UNCHANGED <<ORS_API_KEY, geocodeCache, routeCache, chargerCache, call>>

\* base tariffs in centi-INR per kWh, from the smallest positive amount of
\* two decimals to the default
BaseTariffs == {1, 2, 3, 10, 50, 1200}

CostInputs ==
    [energyRequiredKwh : {0, 100, 4795},
     station : {[StationAt(1, 100) EXCEPT !.energySource = src,
                                          !.isSolarPowered = (src # "grid")] :
                   src \in {"grid", "solar", "hybrid"}},
     options : {[DefaultCostOptions EXCEPT !.basePricePerKwh = t] : t \in BaseTariffs}]

\* the cost of charging at a station and, for comparison, at the otherwise
\* identical grid-powered station
ApplyCalculateSolarDiscountedCost ==
    /\ applied.fn = "none"
    /\ \E input \in CostInputs :
       \E output \in calculateSolarDiscountedCost(input.energyRequiredKwh,
                                                   input.station, input.options) :
       \E gridOutput \in calculateSolarDiscountedCost(input.energyRequiredKwh,
                              [input.station EXCEPT !.energySource = "grid"],
                              input.options) :
          applied' = [fn |-> "calculateSolarDiscountedCost", input |-> input,
                      output |-> output, gridOutput |-> gridOutput]
    /\ UNCHANGED <<ORS_API_KEY, geocodeCache, routeCache, chargerCache, call>>

\* routes of one point and more, with repeated points (segments of length
\* zero) and reversals; targets before, on and beyond the ends and the vertices
RoutePoints == {0, 100, 300}

RouteInputs == UNION {[1..n -> RoutePoints] : n \in 1..MaxRoutePoints}

TargetInputs == {0 - 50, 0, 50, 100, 150, 200, 300, 450, 600, 900}

ApplyPointAtDistanceAlongRoute ==
    /\ applied.fn = "none"
    /\ \E route \in RouteInputs, target \in TargetInputs :
          applied' = [fn |-> "pointAtDistanceAlongRoute",
                      input |-> [route |-> route, targetDistanceKm |-> target],
                      output |-> pointAtDistanceAlongRoute(route, target)]
    /\ UNCHANGED <<ORS_API_KEY, geocodeCache, routeCache, chargerCache, call>>

\* stations for the stop selection along the route <<0, 2000>>: fast and slow
\* ones, grid, solar and hybrid, on the route, inside and outside the 2 km
\* window, two at the same distance
StationWith(id, latitude, power, source) ==
    [id |-> id, latitude |-> latitude, maxPowerKw |-> power,
     isSolarPowered |-> (source # "grid"), energySource |-> source]

StationPool ==
    {StationWith(1, 0, 60, "grid"),
     StationWith(2, 150, 150, "solar"),
     StationWith(3, 250, 50, "hybrid"),
     StationWith(4, 100, 22, "solar"),
     StationWith(5, 2100, 7, "grid"),
     StationWith(6, 100, 60, "grid"),
     StationWith(7, 2150, 150, "grid"),
     StationWith(8, 0, 120, "grid")}

NearbyLists == UNION {[1..n -> StationPool] : n \in 0..MaxNearby}

StopInputs ==
    [nearby : NearbyLists,
     route : {<<0, 2000>>},
     distanceFromStartKm : {135},
     energyRequiredKwh : {300},
     selectedIds : SUBSET {1, 8}]

\* chooseBestStop with the list fetchChargersNearPoint delivers for the point
ApplyChooseBestStop ==
    /\ applied.fn = "none"
    /\ \E input \in StopInputs :
       \E output \in chooseBestStop(input.nearby, input.route, input.distanceFromStartKm,
                                     input.energyRequiredKwh, input.selectedIds) :
          applied' = [fn |-> "chooseBestStop", input |-> input, output |-> output]
    /\ UNCHANGED <<ORS_API_KEY, geocodeCache, routeCache, chargerCache, call>>

\* routes of every length up to MaxSampledLength, a vertex every 0.1 km, and
\* points before the start and beyond the end of the longest one
SampledRoute(n) == [k \in 1..n |-> 10 * k]

SampledRouteInputs == {SampledRoute(n) : n \in 1..MaxSampledLength}

SampledPointInputs == {0, 10 * MaxSampledLength + 5}

\* the output and the number of iterations of the loop of lines 335-337
ApplyMinDistanceToRouteKm ==
    /\ applied.fn = "none"
    /\ \E route \in SampledRouteInputs, point \in SampledPointInputs :
          applied' = [fn |-> "minDistanceToRouteKm",
                      input |-> [point |-> point, route |-> route],
                      output |-> minDistanceToRouteKm(point, route),
                      visited |-> Cardinality(SampledIndices(Len(route)))]
    /\ UNCHANGED <<ORS_API_KEY, geocodeCache, routeCache, chargerCache, call>>

FunctionNext ==
    \/ ApplyMinDistanceToRouteKm
    \/ ApplySimulateReverseCharging
    \/ ApplyFindNearbyRescueVehicles
    \/ ApplyCalculateSolarDiscountedCost
    \/ ApplyPointAtDistanceAlongRoute
    \/ ApplyChooseBestStop

FunctionSpec == FunctionInit /\ [][FunctionNext]_vars


\* ===================================================== a session of calls
\* Two planEvTrip calls of one page session share the three caches and may
\* overlap: each await of one call lets the other call run.  The providers
\* answer every request, and may answer two requests for the same key
\* differently.  Both calls plan the same trip, over a route of 20 km or less.
SessionCalls == {1, 2}

SessionParams ==
    [startLocation |-> <<"same", " ", "corridor">>, destination |-> <<"jaipur">>,
     evMaxRangeKm |-> 300, currentBatteryPercent |-> 5,
     enableCommunityRescue |-> "undefined",
     communityVehicles |-> [defined |-> FALSE, list |-> <<>>]]

SessionInit ==
    /\ ORS_API_KEY = TRUE
    /\ geocodeCache = EmptyMap
    /\ routeCache = EmptyMap
    /\ chargerCache = EmptyMap
    /\ call = [c \in SessionCalls |-> FreshCall]
    /\ applied = NotApplied

SessionStartCall(c) == StartCall(c) /\ call'[c].params = SessionParams

SessionGeocodeResponse(c) == GeocodeResponse(c) /\ call'[c].failures = {}

\* the directions provider answers with one of the two short routes
SessionRouteResponse(c) ==
    /\ RouteResponse(c)
    /\ call'[c].failures = {}
    /\ call'[c].route.geometry # LongRoute

SessionChargersResponse(c) == ChargersResponse(c) /\ call'[c].failures = {}

SessionNext ==
    \E c \in SessionCalls :
        \/ SessionStartCall(c)
        \/ GeocodeCity(c)
        \/ SessionGeocodeResponse(c)
        \/ FetchRoute(c)
        \/ SessionRouteResponse(c)
        \/ PlanRanges(c)
        \/ SegmentStep(c)
        \/ SessionChargersResponse(c)
        \/ Rescue(c)

SessionSpec == SessionInit /\ [][SessionNext]_vars


\* ==================================================== a call and its repeat
\* The caller repeats a planEvTrip call, with the same parameters, once the
\* first call has returned or thrown.  The caches are those the first call
\* left; the providers may fail any request and answer as they like.
RepeatInit ==
    /\ ORS_API_KEY \in BOOLEAN
    /\ geocodeCache = EmptyMap
    /\ routeCache = EmptyMap
    /\ chargerCache = EmptyMap
    /\ call = [c \in SessionCalls |-> FreshCall]
    /\ applied = NotApplied

\* the trips of the session: with a battery below and above the critical
\* threshold, with and without donors of the caller
RepeatParams ==
    {[SessionParams EXCEPT !.currentBatteryPercent = b, !.communityVehicles = v] :
        b \in {5, 80}, v \in VehicleOptions}

RepeatStartCall(c) ==
    /\ IF c = 1 THEN TRUE ELSE call[1].pc = "done"
    /\ StartCall(c)
    /\ call'[c].params \in RepeatParams
    /\ IF c = 1 THEN TRUE ELSE call'[c].params = call[1].params

RepeatNext ==
    \E c \in SessionCalls :
        \/ RepeatStartCall(c)
        \/ GeocodeCity(c)
        \/ GeocodeResponse(c)
        \/ FetchRoute(c)
        \/ RouteResponse(c)
        \/ PlanRanges(c)
        \/ SegmentStep(c)
        \/ ChargersResponse(c)
        \/ Rescue(c)

RepeatSpec == RepeatInit /\ [][RepeatNext]_vars


\* ================================================================ claims
Done(c) == call[c].pc = "done"

Returned(c) == call[c].status = "returned"

Thrown(c) == call[c].status = "thrown"

RequestKinds(c) == {call[c].requests[k].kind : k \in DOMAIN call[c].requests}

\* the stops of a plan are those of the boundaries 1..n, in this order
StopsAtBoundaries(plan) ==
    \A k \in DOMAIN plan.chargingStops :
        plan.chargingStops[k].distanceFromStartKm \in ToFixed(k * plan.planningLegRangeKm, 10)

\* C1: in every returned plan with requiresCharging = true, stop k is the stop
\* of the boundary at k x planningLegRangeKm and the distance left after the
\* last stop boundary is at most planningLegRangeKm -- for plans finalized
\* after a rescue as well.
C1_RouteCoveredByLegs ==
    \A c \in Calls :
        (Returned(c) /\ call[c].result.requiresCharging) =>
            LET plan == call[c].result
                n == Len(plan.chargingStops)
            IN  /\ StopsAtBoundaries(plan)
                /\ plan.totalDistanceKm - n * plan.planningLegRangeKm
                     <= plan.planningLegRangeKm

\* C2: no two entries of chargingStops of a returned plan have the same
\* station id.
C2_DistinctStopIds ==
    \A c \in Calls :
        Returned(c) =>
            \A j, k \in DOMAIN call[c].result.chargingStops :
                j # k => call[c].result.chargingStops[j].id
                           # call[c].result.chargingStops[k].id

\* a plan of two stops or more whose second stop was picked from a list that
\* also offered the first stop's station
C2_Witness ==
    \E c \in Calls :
        /\ Returned(c)
        /\ Len(call[c].result.chargingStops) >= 2
        /\ \E key \in DOMAIN chargerCache :
              /\ key = ChargerCacheKey(pointAtDistanceAlongRoute(
                           call[c].route.geometry, 2 * call[c].planningLegRangeKm))
              /\ \E k \in DOMAIN chargerCache[key] :
                    chargerCache[key][k].id = call[c].result.chargingStops[1].id

\* C3: when the distance exceeds the usable range and every boundary got a
\* stop (no rescue), the plan has exactly ceil(distance / leg range) - 1
\* stops, the stop of boundary k at place k, and chargingStopsRequired is
\* that number; distance 500, usable range 240 give leg range 216 and 2 stops.
C3_StopCount ==
    \A c \in Calls :
        (Returned(c) /\ call[c].result.requiresCharging
           /\ ~call[c].result.communityRescue.triggered) =>
            LET plan == call[c].result
                n == Len(plan.chargingStops)
            IN  /\ n * plan.planningLegRangeKm < plan.totalDistanceKm
                /\ plan.totalDistanceKm <= (n + 1) * plan.planningLegRangeKm
                /\ plan.chargingStopsRequired = n
                /\ StopsAtBoundaries(plan)
                /\ (plan.totalDistanceKm = 50000 /\ plan.usableRangeKm = 24000) =>
                       (plan.planningLegRangeKm = 21600 /\ n = 2)

C3_Witness ==
    \E c \in Calls :
        /\ Returned(c)
        /\ call[c].result.requiresCharging
        /\ ~call[c].result.communityRescue.triggered
        /\ call[c].result.totalDistanceKm = 50000
        /\ call[c].result.usableRangeKm = 24000
        /\ Len(call[c].result.chargingStops) = 2

\* the route of the call has been fetched and the ranges computed
Planned(c) == Done(c) /\ call[c].failedAt \notin
    {"geocodeStart", "awaitGeocodeStart", "geocodeDest", "awaitGeocodeDest",
     "fetchRoute", "awaitRoute"}

\* battery% / 100 x max range, in centi-km
UsableRangeOf(params) ==
    (IF params.currentBatteryPercent < 0 THEN 0
     ELSE IF params.currentBatteryPercent > 100 THEN 100
     ELSE params.currentBatteryPercent)
      * (IF params.evMaxRangeKm < 0 THEN 0 ELSE params.evMaxRangeKm)

\* C4: a route no longer than the usable range returns at once
\* requiresCharging = false, no stops, chargingStopsRequired = 0, rescue
\* neither triggered nor found, without any station-directory query, rescue
\* matching or simulation.
C4_NoChargingNeeded ==
    \A c \in Calls :
        (Planned(c) /\ call[c].route.distanceKm <= UsableRangeOf(call[c].params)) =>
            /\ Returned(c)
            /\ ~call[c].result.requiresCharging
            /\ call[c].result.chargingStops = <<>>
            /\ call[c].result.chargingStopsRequired = 0
            /\ ~call[c].result.communityRescue.triggered
            /\ ~call[c].result.communityRescue.rescueFound
            /\ "directory" \notin RequestKinds(c)
            /\ call[c].simulations = 0
            /\ call[c].noStopLeg = 0

\* the route is exactly as long as the usable range
C4_Witness ==
    \E c \in Calls :
        /\ Planned(c)
        /\ Returned(c)
        /\ call[c].route.distanceKm = UsableRangeOf(call[c].params)
        /\ ~call[c].result.requiresCharging

ErrorCodes ==
    {"MISSING_ORS_KEY", "INVALID_LOCATION", "ROUTE_NOT_FOUND", "NO_CHARGERS_FOUND",
     "NETWORK_ERROR", "UNKNOWN"}

\* C5: every failure of planEvTrip reaches the caller as a TripPlannerError
\* with one of the six codes, never as another error type, and a call never
\* both throws and yields a result.
C5_OnlyTripPlannerErrors ==
    \A c \in Calls :
        /\ Thrown(c) => /\ call[c].thrown.type = "TripPlannerError"
                        /\ call[c].thrown.code \in ErrorCodes
                        /\ call[c].result = FreshCall.result
        /\ call[c].raised # NoError => Thrown(c)
        /\ Returned(c) => call[c].thrown = NoError /\ call[c].raised = NoError

\* the directory client's error reached the boundary of planEvTrip
C5_Witness ==
    \E c \in Calls :
        Thrown(c) /\ call[c].raised.type = "OpenChargeMapError"


\* what the catch block has to make of the error raised inside the call
WrappedAsSpecified(raised, thrown) ==
    /\ raised.type = "TripPlannerError" => thrown = raised
    /\ raised.type \in {"OpenChargeMapError", "Error"} =>
          /\ thrown.type = "TripPlannerError"
          /\ thrown.code = "NETWORK_ERROR"
          /\ thrown.message = raised.message
    /\ raised.type = "NonError" =>
          /\ thrown.type = "TripPlannerError"
          /\ thrown.code = "UNKNOWN"

C7_NoChargersFound ==
    \A c \in Calls :
        (/\ Done(c)
         /\ call[c].noStopLeg > 0
         /\ \/ call[c].params.enableCommunityRescue = "false"
            \/ call[c].params.currentBatteryPercent > 5
            \/ ~call[c].rescueDetails.rescueFound) =>
            /\ Thrown(c)
            /\ call[c].thrown.type = "TripPlannerError"
            /\ call[c].thrown.code = "NO_CHARGERS_FOUND"
            /\ call[c].thrown.segment = call[c].noStopLeg
            /\ call[c].result = FreshCall.result

\* stops were collected, the rescue ran and found no donor
C7_Witness ==
    \E c \in Calls :
        /\ Thrown(c)
        /\ call[c].thrown.code = "NO_CHARGERS_FOUND"
        /\ call[c].noStopLeg >= 2
        /\ Len(call[c].chargingStops) >= 1
        /\ call[c].rescueDetails.triggered
        /\ ~call[c].rescueDetails.rescueFound

\* C8: no stop at boundary i, rescue enabled, battery at most 5 and a rescue
\* found: planEvTrip stops segmenting at i and returns a plan with
\* requiresCharging = true, exactly the i - 1 stops of the boundaries
\* 1..i-1, and communityRescue triggered and found.
C8_RescueEndsSegmentation ==
    \A c \in Calls :
        (/\ Done(c)
         /\ call[c].noStopLeg > 0
         /\ call[c].params.enableCommunityRescue # "false"
         /\ call[c].params.currentBatteryPercent <= 5
         /\ call[c].rescueDetails.rescueFound) =>
            /\ Returned(c)
            /\ call[c].result.requiresCharging
            /\ Len(call[c].result.chargingStops) = call[c].noStopLeg - 1
            /\ call[c].result.chargingStopsRequired = call[c].noStopLeg - 1
            /\ StopsAtBoundaries(call[c].result)
            /\ call[c].result.communityRescue.triggered
            /\ call[c].result.communityRescue.rescueFound
            /\ \A k \in DOMAIN call[c].requests :
                   call[c].requests[k].leg <= call[c].noStopLeg
            /\ call[c].i = call[c].noStopLeg

\* a rescue at a boundary behind the first, short of the last boundary
C8_Witness ==
    \E c \in Calls :
        /\ Returned(c)
        /\ call[c].noStopLeg >= 2
        /\ call[c].noStopLeg < call[c].stopsNeeded
        /\ call[c].result.communityRescue.rescueFound
        /\ Len(call[c].result.chargingStops) = call[c].noStopLeg - 1

GeocodeKinds == {"geocode:start", "geocode:destination"}

\* C9: the start is geocoded before the destination and the route is
\* fetched only after both geocodes succeeded; a failed start geocode
\* leaves no destination geocode, directions or directory request, a failed
\* destination geocode no directions or directory request.
C9_GeocodeBeforeRoute ==
    \A c \in Calls :
        /\ call[c].failedAt \in {"geocodeStart", "awaitGeocodeStart"} =>
              RequestKinds(c) \subseteq {"geocode:start"}
        /\ call[c].failedAt \in {"geocodeDest", "awaitGeocodeDest"} =>
              RequestKinds(c) \subseteq GeocodeKinds
        /\ \A j, k \in DOMAIN call[c].requests :
              /\ (call[c].requests[j].kind = "geocode:start"
                    /\ call[c].requests[k].kind # "geocode:start") => j < k
              /\ (call[c].requests[j].kind \in GeocodeKinds
                    /\ call[c].requests[k].kind \notin GeocodeKinds) => j < k
        /\ (RequestKinds(c) \ GeocodeKinds # {}
              \/ call[c].pc \in {"fetchRoute", "awaitRoute", "plan", "segment"}) =>
              /\ Trim(call[c].params.startLocation) \in DOMAIN geocodeCache
              /\ Trim(call[c].params.destination) \in DOMAIN geocodeCache

\* the geocode request for the start failed while the destination was
\* still to be geocoded
C9_Witness ==
    \E c \in Calls :
        /\ Thrown(c)
        /\ call[c].failedAt = "awaitGeocodeStart"
        /\ Len(Trim(call[c].params.destination)) > 0
        /\ Trim(call[c].params.destination) \notin DOMAIN geocodeCache

\* C10: distance above the usable range and a planning leg range of 0 or
\* less: planEvTrip fails with the battery-too-low error before any
\* station-directory query or rescue step, and the stop count is never
\* computed from a leg range that is not positive.
C10_BatteryTooLow ==
    \A c \in Calls :
        /\ (/\ Planned(c)
            /\ call[c].route.distanceKm > call[c].usableRangeKm
            /\ call[c].planningLegRangeKm <= 0) =>
              /\ Thrown(c)
              /\ call[c].thrown.code = "ROUTE_NOT_FOUND"
              /\ call[c].thrown.message =
                    "Battery percentage is too low to generate a safe charging plan."
              /\ "directory" \notin RequestKinds(c)
              /\ call[c].simulations = 0
              /\ call[c].noStopLeg = 0
              /\ call[c].stopsNeeded = 0
        /\ ("directory" \in RequestKinds(c)
              \/ call[c].pc \in {"segment", "awaitChargers", "awaitChargersFallback", "rescue"}) =>
              call[c].planningLegRangeKm > 0

\* a route of positive length with an empty battery
C10_Witness ==
    \E c \in Calls :
        /\ Thrown(c)
        /\ call[c].failedAt = "plan"
        /\ call[c].route.distanceKm > 0
        /\ call[c].planningLegRangeKm = 0

\* C11: for every input of simulateReverseCharging, a result with rescueFound
\* = true has transferredEnergyKwh at least transferKwhRange.min, and a result
\* with rescueFound = false has transferredEnergyKwh exactly 0,
\* emergencyRangeGainedKm 0 and nearestChargerReachable false.
C11_TransferWithinWindow ==
    applied.fn = "simulateReverseCharging" =>
        /\ applied.output.rescueFound =>
               10 * applied.output.transferredEnergyKwh >= applied.input.transferKwhRange.min
        /\ ~applied.output.rescueFound =>
               /\ applied.output.transferredEnergyKwh = 0
               /\ applied.output.emergencyRangeGainedKm = 0
               /\ ~applied.output.nearestChargerReachable

\* C12: every vehicle findNearbyRescueVehicles returns is an element of the
\* input list that supports reverse charging, has at least the minimum donor
\* battery, is at most maxDistanceKm from the receiver and has a route
\* similarity of at least 0.35; the list is in non-decreasing distance, and
\* vehicles at the same distance are in descending battery percent.
C12_MatchedDonors ==
    applied.fn = "findNearbyRescueVehicles" =>
        LET in == applied.input
            out == applied.output
            dist(v) == haversineKm(in.receiverLocation, v.currentLocation)
        IN  /\ \A k \in DOMAIN out :
                  /\ out[k] \in Range(in.vehicles)
                  /\ out[k].supportsReverseCharging
                  /\ out[k].availableBatteryPercent >= in.minimumDonorBatteryPercent
                  /\ dist(out[k]) <= in.maxDistanceKm
                  /\ routeSimilarityScore(in.receiverRouteDirection, out[k].routeDirection)
                        >= SIMILARITY_THRESHOLD_PCT
            /\ \A j, k \in DOMAIN out :
                  j < k =>
                     /\ dist(out[j]) <= dist(out[k])
                     /\ dist(out[j]) = dist(out[k]) =>
                            out[j].availableBatteryPercent >= out[k].availableBatteryPercent

\* a match that dropped a vehicle and kept two at the same distance, the one
\* with less battery coming first in the input
C12_Witness ==
    /\ applied.fn = "findNearbyRescueVehicles"
    /\ Len(applied.output) >= 2
    /\ Len(applied.output) < Len(applied.input.vehicles)
    /\ applied.input.vehicles[1].availableBatteryPercent
          < applied.input.vehicles[2].availableBatteryPercent
    /\ applied.output[1] = applied.input.vehicles[2]
    /\ applied.output[2] = applied.input.vehicles[1]
    /\ haversineKm(0, applied.output[1].currentLocation)
          = haversineKm(0, applied.output[2].currentLocation)

\* C13: for every positive base tariff of two decimals and the default
\* discounts, the rounded effectivePricePerKwh of a solar station is strictly
\* less than that of the otherwise identical grid station.
C13_SolarCheaperThanGrid ==
    (applied.fn = "calculateSolarDiscountedCost"
        /\ applied.input.station.energySource = "solar") =>
        applied.output.effectivePricePerKwh < applied.gridOutput.effectivePricePerKwh

\* the length of the route up to its point k
RECURSIVE LengthUpTo(_, _)
LengthUpTo(route, k) ==
    IF k <= 1 THEN 0
    ELSE LengthUpTo(route, k - 1) + Abs(route[k] - route[k - 1])

\* p lies on the segment from a to b, at distance d from a
OnSegmentAt(p, a, b, d) ==
    /\ Min2(a, b) <= p
    /\ p <= Max2(a, b)
    /\ Abs(p - a) = d

\* C17: for every non-empty route, pointAtDistanceAlongRoute returns the first
\* point for a target of 0 or less, the last point for a target of the total
\* length or more (routes of one point and routes with segments of length zero
\* included), and otherwise a point on the segment in which the cumulative
\* length first reaches the target.
C17_PointAlongRoute ==
    applied.fn = "pointAtDistanceAlongRoute" =>
        LET route == applied.input.route
            t == applied.input.targetDistanceKm
            total == LengthUpTo(route, Len(route))
            out == applied.output
        IN  /\ t <= 0 => out = route[1]
            /\ t >= total => out = route[Len(route)]
            /\ (0 < t /\ t < total) =>
                   \E k \in 2..Len(route) :
                       /\ LengthUpTo(route, k - 1) < t
                       /\ t <= LengthUpTo(route, k)
                       /\ OnSegmentAt(out, route[k - 1], route[k],
                                      t - LengthUpTo(route, k - 1))

\* a target strictly inside a segment that follows a segment of length zero
\* and a reversal
C17_Witness ==
    /\ applied.fn = "pointAtDistanceAlongRoute"
    /\ applied.input.route = <<100, 100, 0, 300>>
    /\ applied.input.targetDistanceKm = 150
    /\ applied.output = 50

\* the stations of an input of chooseBestStop that are not yet selected
UnusedStations(input) ==
    {st \in Range(input.nearby) : st.id \notin input.selectedIds}

FastStations(input) ==
    {st \in UnusedStations(input) : st.maxPowerKw >= MIN_FAST_CHARGER_KW}

\* C18: if a not-yet-selected station of the list has maxPowerKw >= 50 the
\* selected stop has isFastCharger = true, whatever slower stations offer;
\* only when no unused station reaches 50 kW is the stop one of all the
\* unused stations.
C18_FastChargerFirst ==
    applied.fn = "chooseBestStop" =>
        /\ FastStations(applied.input) # {} =>
               /\ applied.output.found
               /\ applied.output.isFastCharger
               /\ applied.output.id \in {st.id : st \in FastStations(applied.input)}
        /\ (FastStations(applied.input) = {} /\ UnusedStations(applied.input) # {}) =>
               /\ applied.output.found
               /\ ~applied.output.isFastCharger
               /\ applied.output.id \in {st.id : st \in UnusedStations(applied.input)}

\* a fast grid station farther from the route is picked although a slow solar
\* station is closer
C18_Witness ==
    /\ applied.fn = "chooseBestStop"
    /\ applied.output.found
    /\ applied.output.isFastCharger
    /\ applied.output.energySource = "grid"
    /\ \E st \in UnusedStations(applied.input) :
          /\ st.maxPowerKw < MIN_FAST_CHARGER_KW
          /\ st.isSolarPowered
          /\ minDistanceToRouteKm(st.latitude, applied.input.route)
                < applied.output.distanceFromRouteKm

\* the pool chooseBestStop ranks
PoolStations(input) ==
    IF FastStations(input) # {} THEN FastStations(input) ELSE UnusedStations(input)

PoolMinDistance(input) ==
    LET ds == {minDistanceToRouteKm(st.latitude, input.route) : st \in PoolStations(input)}
    IN  CHOOSE d \in ds : \A e \in ds : d <= e

\* a solar or hybrid station within 2 km of the pool's minimum route distance
InSolarWindow(st, input) ==
    /\ st.energySource \in {"solar", "hybrid"}
    /\ minDistanceToRouteKm(st.latitude, input.route)
          <= PoolMinDistance(input) + MIN_SOLAR_DETOUR_WINDOW_C

\* station a comes strictly before station b in the order of the claim
StrictlyPreferred(a, b, input) ==
    LET da == minDistanceToRouteKm(a.latitude, input.route)
        db == minDistanceToRouteKm(b.latitude, input.route)
    IN  \/ InSolarWindow(a, input) /\ ~InSolarWindow(b, input)
        \/ /\ InSolarWindow(a, input) = InSolarWindow(b, input)
           /\ \/ da < db
              \/ da = db /\ a.maxPowerKw > b.maxPowerKw

\* C19: the picked stop is a minimum of the chosen pool under the order
\* "solar/hybrid within 2 km of the pool's minimum route distance first, then
\* ascending route distance, then descending power"; so its
\* distanceFromRouteKm exceeds the pool's minimum by at most 2 km, and its
\* isSolarPreferred is true exactly when the pool holds a solar/hybrid
\* candidate inside that window.
C19_RankedPick ==
    (applied.fn = "chooseBestStop" /\ applied.output.found) =>
        LET in == applied.input
            out == applied.output
        IN  /\ \E p \in PoolStations(in) :
                  /\ p.id = out.id
                  /\ p.maxPowerKw = out.powerKw
                  /\ minDistanceToRouteKm(p.latitude, in.route) = out.distanceFromRouteKm
                  /\ \A q \in PoolStations(in) : ~StrictlyPreferred(q, p, in)
            /\ out.distanceFromRouteKm
                  <= PoolMinDistance(in) + MIN_SOLAR_DETOUR_WINDOW_C
            /\ out.isSolarPreferred
                  <=> (\E q \in PoolStations(in) : InSolarWindow(q, in))

\* a solar station 1.5 km from the route is picked over a grid station on the
\* route, while a hybrid station 2.5 km away is in the pool, outside the window
C19_Witness ==
    /\ applied.fn = "chooseBestStop"
    /\ applied.output.found
    /\ applied.output.isSolarPreferred
    /\ applied.output.distanceFromRouteKm > PoolMinDistance(applied.input)
    /\ \E q \in PoolStations(applied.input) :
          /\ q.energySource = "hybrid"
          /\ ~InSolarWindow(q, applied.input)

\* C20: simulateReverseCharging checks its guards in a fixed order: with
\* oneRescuePerTrip and alreadyRescuedOnTrip both set it fails with the
\* limit-reached reason and no transfer even when candidates exist; otherwise
\* with an empty candidate list it fails with the no-vehicle-available
\* reason; only otherwise is the donor evaluated, and the donor is the first
\* candidate: the result is the one the first candidate alone would give.
C20_GuardOrder ==
    applied.fn = "simulateReverseCharging" =>
        LET in == applied.input
            out == applied.output
        IN  IF in.oneRescuePerTrip /\ in.alreadyRescuedOnTrip
            THEN /\ out.reason = "One rescue per trip limit reached"
                 /\ ~out.rescueFound
                 /\ out.transferredEnergyKwh = 0
            ELSE IF Len(in.rescueCandidates) = 0
            THEN /\ out.reason = "No rescue vehicle available"
                 /\ ~out.rescueFound
                 /\ out.transferredEnergyKwh = 0
            ELSE /\ out.reason \notin {"One rescue per trip limit reached",
                                       "No rescue vehicle available"}
                 /\ out.rescueFound => out.donorVehicleId = in.rescueCandidates[1].vehicleId
                 /\ out \in simulateReverseCharging(
                               [in EXCEPT !.rescueCandidates = <<in.rescueCandidates[1]>>])

\* the limit is reached while a donor with energy to spare is first in the
\* list of candidates
C20_Witness ==
    /\ applied.fn = "simulateReverseCharging"
    /\ applied.input.oneRescuePerTrip
    /\ applied.input.alreadyRescuedOnTrip
    /\ Len(applied.input.rescueCandidates) = 2
    /\ applied.input.rescueCandidates[1].vehicleId = "EV-FULL"
    /\ applied.input.transferKwhRange = [min |-> 5000, max |-> 10000]
    /\ applied.output.reason = "One rescue per trip limit reached"
    /\ ~applied.output.rescueFound

\* the requests of call c of one kind for one leg
RequestsFor(c, kind, leg) ==
    {k \in DOMAIN call[c].requests :
        call[c].requests[k].kind = kind /\ call[c].requests[k].leg = leg}

WritesOf(c, cache) ==
    {call[c].writes[k] : k \in {j \in DOMAIN call[c].writes : call[c].writes[j].cache = cache}}

\* all the writes of the session under one key of one cache
WritesUnder(cache, key) ==
    {w \in UNION {WritesOf(c, cache) : c \in SessionCalls} : w.key = key}

\* the first lookup call c made for leg i (the lookup of chooseBestStop)
FirstLookup(c, i) ==
    LET ks == {k \in DOMAIN call[c].lookups : call[c].lookups[k].leg = i}
    IN  call[c].lookups[CHOOSE k \in ks : \A j \in ks : k <= j]

UsedOwnValue(c, w) ==
    CASE w.cache = "geocode" ->
           /\ Trim(call[c].params.startLocation) = w.key => call[c].start = w.value
           /\ (Trim(call[c].params.destination) = w.key
                 /\ call[c].pc \notin {"geocodeStart", "awaitGeocodeStart", "geocodeDest",
                                        "awaitGeocodeDest"}) => call[c].destination = w.value
      [] w.cache = "route" -> call[c].route = w.value
      [] OTHER ->
           \E k \in DOMAIN call[c].lookups :
               /\ call[c].lookups[k].key = w.key
               /\ ~call[c].lookups[k].hit
               /\ call[c].lookups[k].stations = w.value

\* C16 as stated: two overlapping calls that miss the same key both send
\* their request and both write the key, the two values written are
\* equivalent, and so the cache entry and the value each call uses are those
\* of a run of the calls one after the other.
C16_EquivalentWrites ==
    \A cache \in {"geocode", "route", "charger"} :
        \A w1 \in WritesOf(1, cache), w2 \in WritesOf(2, cache) :
            w1.key = w2.key =>
                /\ w1.value = w2.value
                /\ UsedOwnValue(1, w1)
                /\ UsedOwnValue(2, w2)

\* the entry of a cache under a key
CacheEntry(cache, key) ==
    CASE cache = "geocode" -> geocodeCache[key]
      [] cache = "route" -> routeCache[key]
      [] OTHER -> chargerCache[key]

\* C16, amended: two overlapping calls that miss the same key both send
\* their own request and both write the key (the later write replaces the
\* earlier); each call goes on with the value of its own response, and the
\* cache keeps the value written last.  When the two responses are equal,
\* entry and values are those of a run of the calls one after the other.
C16_LastWriteWins ==
    \A cache \in {"geocode", "route", "charger"} :
        \A w1 \in WritesOf(1, cache), w2 \in WritesOf(2, cache) :
            w1.key = w2.key =>
                /\ w1.over # w2.over
                /\ CacheEntry(cache, w1.key) = IF w2.over THEN w2.value ELSE w1.value
                /\ UsedOwnValue(1, w1)
                /\ UsedOwnValue(2, w2)
                /\ \A c \in SessionCalls : \A k \in DOMAIN call[c].requests :
                       ~call[c].requests[k].present
                /\ w1.value = w2.value =>
                       /\ CacheEntry(cache, w1.key) = w1.value
                       /\ UsedOwnValue(1, w2)
                       /\ UsedOwnValue(2, w1)

\* both calls geocoded the start and fetched the station list of the same
\* boundary while the other's request was in flight, and the directory
\* answered the two calls differently
C16_Witness ==
    /\ call[1].pc = "done"
    /\ call[2].pc = "done"
    /\ \E w1 \in WritesOf(1, "geocode"), w2 \in WritesOf(2, "geocode") :
          w1.key = w2.key /\ w2.over
    /\ \E w1 \in WritesOf(1, "charger"), w2 \in WritesOf(2, "charger") :
          w1.key = w2.key /\ w1.value # w2.value /\ w1.over

\* the guards of simulateReverseCharging passed: the limit of one rescue per
\* trip is not reached and there is a donor
GuardsPassed(input) ==
    /\ ~(input.oneRescuePerTrip /\ input.alreadyRescuedOnTrip)
    /\ Len(input.rescueCandidates) > 0

\* min(window.max, max(0, donor energy - donor floor energy)) of the first
\* candidate, in milli-kWh
TransferAmount(input) ==
    LET donor == input.rescueCandidates[1]
    IN  Min2(input.transferKwhRange.max,
             Max2(0, (donor.availableBatteryPercent - input.donorSafeBatteryFloorPercent)
                        * input.donorBatteryCapacityKwh * 10))

\* C21: for a donor that passes the guards, simulateReverseCharging transfers
\* min(window.max, max(0, donor energy - floor energy)) when that amount is
\* at least window.min, and otherwise nothing (rescueFound = false, reason
\* below safe transfer reserve), never an amount below window.min; on an
\* accepted transfer emergencyRangeGainedKm is the transferred energy times
\* 4.5 km per kWh, to one decimal.
C21_TransferAmount ==
    (applied.fn = "simulateReverseCharging" /\ GuardsPassed(applied.input)) =>
        LET amount == TransferAmount(applied.input)
            out == applied.output
        IN  /\ amount >= applied.input.transferKwhRange.min =>
                   /\ 10 * out.transferredEnergyKwh = amount
                   /\ out.rescueFound =>
                          out.emergencyRangeGainedKm \in ToFixed(amount * 45, 1000)
            /\ amount < applied.input.transferKwhRange.min =>
                   /\ ~out.rescueFound
                   /\ out.transferredEnergyKwh = 0
                   /\ out.reason = "Donor battery is below safe transfer reserve"
            /\ out.rescueFound =>
                   10 * out.transferredEnergyKwh >= applied.input.transferKwhRange.min

\* the stops of a plan whose energy source is not the grid
NonGridStops(plan) ==
    {k \in DOMAIN plan.chargingStops : plan.chargingStops[k].energySource # "grid"}

RECURSIVE CostOfStops(_, _)
CostOfStops(plan, k) ==
    IF k = 0 THEN 0
    ELSE plan.chargingStops[k].estimatedChargingCostInr + CostOfStops(plan, k - 1)

C23_AtMost120Samples ==
    applied.fn = "minDistanceToRouteKm" => applied.visited <= 120

\* C23, amended: for every route length n >= 1 minDistanceToRouteKm visits
\* ceil(n / stride) vertices with stride = max(1, floor(n / 120)); that is
\* every vertex of a route of up to 239 vertices, and never more than 239.
C23_FewerThan240Samples ==
    applied.fn = "minDistanceToRouteKm" =>
        LET n == Len(applied.input.route)
            stride == IF n < 240 THEN 1 ELSE n \div 120
        IN  /\ applied.visited = (n + stride - 1) \div stride
            /\ n <= 239 => applied.visited = n
            /\ applied.visited <= 239
            /\ applied.visited >= Min2(n, 120)

\* a route of 239 vertices, all of them visited
C23_Witness ==
    /\ applied.fn = "minDistanceToRouteKm"
    /\ Len(applied.input.route) = 239
    /\ applied.visited = 239

\* C24: in every plan planEvTrip returns, communityRescue.triggered implies
\* communityRescue.enabled and communityRescue.rescueFound with
\* transferredEnergyKwh between 5 and 10 kWh; a call whose rescue was
\* triggered but not found returns no plan.
C24_TriggeredMeansFound ==
    \A c \in Calls :
        /\ (Returned(c) /\ call[c].result.communityRescue.triggered) =>
               /\ call[c].result.communityRescue.enabled
               /\ call[c].result.communityRescue.rescueFound
               /\ call[c].result.communityRescue.transferredEnergyKwh >= 500
               /\ call[c].result.communityRescue.transferredEnergyKwh <= 1000
        /\ (Done(c) /\ call[c].rescueDetails.triggered
                    /\ ~call[c].rescueDetails.rescueFound) =>
               /\ Thrown(c)
               /\ call[c].result = FreshCall.result

\* a plan returned after a rescue that was triggered and found
C24_Witness ==
    \E c \in Calls :
        /\ Returned(c)
        /\ call[c].simulations = 1
        /\ call[c].result.communityRescue.triggered
        /\ call[c].result.communityRescue.rescueFound
        /\ call[c].result.communityRescue.transferredEnergyKwh = 1000

\* C25: within one planEvTrip call simulateReverseCharging is invoked at most
\* once: the step that invokes it (from no invocation to one) ends the call,
\* by the return of a plan when the rescue was found and by NO_CHARGERS_FOUND
\* otherwise, and no later step invokes it again; the outcome "One rescue per
\* trip limit reached" is never produced.
C25_AtMostOneRescue ==
    [][\A c \in Calls :
          /\ call'[c].simulations <= 1
          /\ call'[c].rescueDetails.reason # "One rescue per trip limit reached"
          /\ call'[c].simulations # call[c].simulations =>
                 /\ call[c].simulations = 0
                 /\ call'[c].pc = "done"
                 /\ IF call'[c].rescueDetails.rescueFound
                    THEN call'[c].status = "returned"
                    ELSE /\ call'[c].status = "thrown"
                         /\ call'[c].thrown.code = "NO_CHARGERS_FOUND"
          /\ call[c].simulations = 1 => call'[c] = call[c]]_vars

\* the simulation ran after a stop on an earlier leg and ended the call in a
\* plan, short of the last boundary
C25_Witness ==
    \E c \in Calls :
        /\ Returned(c)
        /\ call[c].simulations = 1
        /\ Len(call[c].chargingStops) >= 1
        /\ call[c].noStopLeg < call[c].stopsNeeded

\* C26: whenever simulateReverseCharging returns rescueFound = true,
\* transferredEnergyKwh is at most transferKwhRange.max, the donor's energy
\* after the transfer (current - transferred) is at least the floor percent
\* of its capacity, donorBatteryAfterPercent is at least the floor percent,
\* and receiverBatteryAfterPercent is at most 100.
C26_DonorKeepsReserve ==
    (applied.fn = "simulateReverseCharging" /\ applied.output.rescueFound) =>
        LET input == applied.input
            out == applied.output
            donor == input.rescueCandidates[1]
            capacity == input.donorBatteryCapacityKwh
        IN  /\ 10 * out.transferredEnergyKwh <= input.transferKwhRange.max
            /\ donor.availableBatteryPercent * capacity * 10 - 10 * out.transferredEnergyKwh
                 >= input.donorSafeBatteryFloorPercent * capacity * 10
            /\ out.donorBatteryAfterPercent >= 10 * input.donorSafeBatteryFloorPercent
            /\ out.receiverBatteryAfterPercent <= 1000

\* the stages of a call at which a lookup of geocodeCity or fetchRoute fails
LookupStages ==
    {"geocodeStart", "awaitGeocodeStart", "geocodeDest", "awaitGeocodeDest",
     "fetchRoute", "awaitRoute"}

\* the step is the failure of a lookup of call c: a missing key, a failed
\* request or an invalid payload of the geocoder or the directions
\* provider, or a failed fetch of the directory
LookupFails(c) ==
    \/ call'[c].failures # call[c].failures
    \/ call[c].pc # "done" /\ call'[c].pc = "done" /\ call'[c].failedAt \in LookupStages

\* call c has looked up the chargers of leg i
ReachedLeg(c, i) ==
    \/ call[c].i > i
    \/ call[c].i = i /\ call[c].pc \in {"awaitChargers", "awaitChargersFallback",
                                         "rescue", "done"}

\* the first call failed at `stage`, under the key `key` of `cache`: until
\* the repeat reaches that lookup the cache has no entry for the key, and
\* when it has reached it, it has sent the request again
RetriedAfterFailure(stage, cache, key, before, kind) ==
    call[1].failedAt = stage =>
        /\ call[2].pc \in before => key \notin DOMAIN cache
        /\ call[2].pc \notin before =>
               \E k \in DOMAIN call[2].requests :
                  call[2].requests[k].kind = kind /\ ~call[2].requests[k].present

\* C27: a geocode, route or charger lookup that fails leaves geocodeCache,
\* routeCache and chargerCache unchanged; every entry of a cache was written
\* by a call after a successful response; and when the call is repeated, the
\* lookup that failed finds no entry under its key and sends a new request.
C27_FailuresNotCached ==
    /\ [][\A c \in SessionCalls :
             LookupFails(c) => UNCHANGED <<geocodeCache, routeCache, chargerCache>>]_vars
    /\ [](\A key \in DOMAIN chargerCache : \E c \in SessionCalls :
             \E k \in DOMAIN call[c].writes :
                /\ call[c].writes[k].cache = "charger"
                /\ call[c].writes[k].key = key)
    /\ [](\A key \in DOMAIN geocodeCache : \E c \in SessionCalls :
             \E k \in DOMAIN call[c].writes :
                /\ call[c].writes[k].cache = "geocode"
                /\ call[c].writes[k].key = key
                /\ call[c].writes[k].value = GeocodePayload(key))
    /\ [](\A key \in DOMAIN routeCache : \E c \in SessionCalls :
             \E k \in DOMAIN call[c].writes :
                /\ call[c].writes[k].cache = "route"
                /\ call[c].writes[k].key = key)
    /\ [](\A c \in SessionCalls :
             Len(call[c].writes) + Cardinality(call[c].failures \ {"directoryFirstFetch"})
                 <= Len(call[c].requests))
    /\ []RetriedAfterFailure("awaitGeocodeStart", geocodeCache,
                             Trim(call[1].params.startLocation),
                             {"idle", "geocodeStart"}, "geocode:start")
    /\ []RetriedAfterFailure("awaitGeocodeDest", geocodeCache,
                             Trim(call[1].params.destination),
                             {"idle", "geocodeStart", "geocodeDest"},
                             "geocode:destination")
    /\ []RetriedAfterFailure("awaitRoute", routeCache,
                             RouteCacheKey(call[1].start, call[1].destination),
                             {"idle", "geocodeStart", "geocodeDest", "fetchRoute"},
                             "directions")
    /\ []((/\ call[1].failedAt \in {"awaitChargers", "awaitChargersFallback"}
            /\ "directory" \in call[1].failures) =>
             /\ ~ReachedLeg(2, call[1].i) =>
                    ChargerCacheKey(RoutePoint(call[1])) \notin DOMAIN chargerCache
             /\ ReachedLeg(2, call[1].i) =>
                    \E k \in DOMAIN call[2].requests :
                       /\ call[2].requests[k].kind = "directory"
                       /\ call[2].requests[k].leg = call[1].i
                       /\ ~call[2].requests[k].present)

\* the directory failed in the first call behind a first stop; the repeat
\* has asked the directory again for that leg and got a plan
C27_Witness ==
    /\ call[1].failedAt \in {"awaitChargers", "awaitChargersFallback"}
    /\ "directory" \in call[1].failures
    /\ call[1].i >= 2
    /\ Returned(2)
    /\ call[2].i > call[1].i
    /\ \E k \in DOMAIN call[2].requests :
          call[2].requests[k].kind = "directory" /\ call[2].requests[k].leg = call[1].i

\* C28: after planEvTrip has returned a plan, a second call with the same
\* parameters in the same session sends no provider request (every charger
\* lookup is a cache hit, no cache is written) and returns a plan with the
\* same stops in the same order and the same rescue outcome; the second
\* call starts from an empty set of selected ids.
C28_RepeatFromCache ==
    Returned(1) =>
        /\ call[2].requests = <<>>
        /\ call[2].writes = <<>>
        /\ call[2].failures = {}
        /\ \A k \in DOMAIN call[2].lookups : call[2].lookups[k].hit
        /\ call[2].pc \in {"idle", "geocodeStart"} => call[2].selectedIds = {}
        /\ Done(2) =>
               /\ Returned(2)
               /\ call[2].result.chargingStops = call[1].result.chargingStops
               /\ call[2].result.communityRescue = call[1].result.communityRescue
               /\ call[2].result = call[1].result

\* both calls returned the same plan of two stops and a rescue; the first
\* call fetched, the second did not
C28_Witness ==
    /\ Returned(1)
    /\ Returned(2)
    /\ Len(call[1].requests) >= 5
    /\ call[2].requests = <<>>
    /\ Len(call[2].result.chargingStops) = 2
    /\ call[2].result.communityRescue.rescueFound
    /\ call[2].selectedIds = call[1].selectedIds

\* `${params.startLocation}-${params.destination}`
ReceiverLabel(params) == params.startLocation \o <<"-">> \o params.destination

\* the labels of the three synthetic vehicles
SyntheticLabels ==
    {<<"same", " ", "corridor", " ", "outbound">>,
     <<"nearby", " ", "local", " ", "route">>,
     <<"different", " ", "route">>}

\* the two labels share no token and neither contains the other
NoOverlap(a, b) ==
    /\ (Range(Trim(a)) \ {" ", "-"}) \cap (Range(Trim(b)) \ {" ", "-"}) = {}
    /\ ~\E o \in 0..(Len(Trim(a)) - Len(Trim(b))) :
           SubSeq(Trim(a), o + 1, o + Len(Trim(b))) = Trim(b)
    /\ ~\E o \in 0..(Len(Trim(b)) - Len(Trim(a))) :
           SubSeq(Trim(b), o + 1, o + Len(Trim(a))) = Trim(a)

\* C29: when planEvTrip enters the rescue path without communityVehicles of
\* the caller, a donor that is found is one of the synthetic vehicles; and
\* if the label "<startLocation>-<destination>" overlaps none of the three
\* synthetic labels, no candidate is matched, the simulation reports "No
\* rescue vehicle available" and the call throws NO_CHARGERS_FOUND.
C29_SyntheticDonorsNeedOverlap ==
    \A c \in Calls :
        (call[c].simulations = 1 /\ ~call[c].params.communityVehicles.defined) =>
            /\ call[c].rescueDetails.rescueFound =>
                   /\ call[c].rescueDetails.donorVehicleId
                        \in {"EV-COMM-101", "EV-COMM-202", "EV-COMM-303"}
                   /\ \E label \in SyntheticLabels :
                         ~NoOverlap(ReceiverLabel(call[c].params), label)
            /\ (\A label \in SyntheticLabels :
                   NoOverlap(ReceiverLabel(call[c].params), label)) =>
                   /\ ~call[c].rescueDetails.rescueFound
                   /\ call[c].rescueDetails.reason = "No rescue vehicle available"
                   /\ Thrown(c)
                   /\ call[c].thrown.code = "NO_CHARGERS_FOUND"

\* a trip from jaipur to jaipur reached the rescue and found no donor
C29_Witness ==
    \E c \in Calls :
        /\ call[c].simulations = 1
        /\ ~call[c].params.communityVehicles.defined
        /\ \A label \in SyntheticLabels :
              NoOverlap(ReceiverLabel(call[c].params), label)
        /\ call[c].rescueDetails.triggered
        /\ Thrown(c)
        /\ call[c].thrown.code = "NO_CHARGERS_FOUND"

\* the station list the rescue branch of call c got from fetchChargersNearPoint
RescueStations(c) == call[c].lookups[Len(call[c].lookups)].stations

\* C30: after the simulation planEvTrip returns a plan exactly when
\* rescueFound is true, whatever nearestChargerReachable is; the plan says
\* "Charging stops planned successfully."; and when the directory returned
\* no station near the failing leg point, the plan returned through the
\* rescue has communityRescue.nearestChargerReachable = false.
C30_FinalizedOnRescueFound ==
    \A c \in Calls :
        (Done(c) /\ call[c].simulations = 1) =>
            /\ Returned(c) <=> call[c].rescueDetails.rescueFound
            /\ Returned(c) =>
                   /\ call[c].result.requiresCharging
                   /\ call[c].result.message = "Charging stops planned successfully."
                   /\ call[c].result.communityRescue.triggered
                   /\ call[c].result.communityRescue.nearestChargerReachable
                        = call[c].rescueDetails.nearestChargerReachable
                   /\ RescueStations(c) = <<>> =>
                          ~call[c].result.communityRescue.nearestChargerReachable

\* a plan returned through the rescue although no charger is in reach: the
\* directory had no station near the leg point
C30_Witness ==
    \E c \in Calls :
        /\ Returned(c)
        /\ call[c].simulations = 1
        /\ RescueStations(c) = <<>>
        /\ call[c].result.communityRescue.rescueFound
        /\ ~call[c].result.communityRescue.nearestChargerReachable
        /\ call[c].result.message = "Charging stops planned successfully."
====
